---- MODULE Spec2Model ----
(***************************************************************************)
(* Model of the macro execution path of python-macro:                      *)
(*   MacroController (core/macro_controller.py), RecordedMacro.run         *)
(*   (macros/recorded_macro.py), Macro.press_key / Macro.safe_sleep        *)
(*   (core/macro.py) and send_key_to_window (utils/window_utils.py).       *)
(*                                                                         *)
(* One caller thread (the UI thread: main_window.py schedules the hotkeys  *)
(* onto it with root.after) calls start_macro / stop_macro.  Every         *)
(* accepted start_macro spawns a worker thread; a worker is a sequential   *)
(* process whose program counter pc[t] names the place in the code where   *)
(* it reads the shared Event next.  Time is abstracted to poll ticks: a    *)
(* sleep or hold of d ticks takes d passes through its polling loop.       *)
(* The target window stays open while macros run.                          *)
(***************************************************************************)
EXTENDS Integers, Sequences, FiniteSets, TLC

\* Number of worker threads the caller may spawn in one behaviour.
MaxThreads == 2
\* Saturation point of the iteration counter of an infinitely looping macro
\* (the counter is only printed by the code once max_iterations is None).
IterCap == 2

Threads == 1..MaxThreads
None == 0

VARIABLES
    current_macro,   \* MacroController.current_macro: None or a macro of MacroLib
    macro_thread,    \* MacroController.macro_thread: None or a thread handle
    running,         \* MacroController.running: the one threading.Event, TRUE = set
    caller_pc,       \* "idle", or "joining" while stop_macro blocks in join()
    last_error,      \* what the caller's last controller call raised, "none" if nothing
    alive,           \* Thread.is_alive() of every spawned thread
    spawned,         \* number of threads created so far
    pc,              \* position of every worker in run / press_key / send_key_to_window
    tmacro,          \* the macro argument of every worker
    iteration,       \* RecordedMacro.run: iteration
    step,            \* RecordedMacro.run: step of the for loop (1-based)
    ticks,           \* polls left before the current sleep or hold has elapsed
    held,            \* key this worker's injector call has pressed and not released
    last_report,     \* kind of the last update_status / print of the worker
    executed,        \* passes through the action list this worker has finished
    exit_kind,       \* how run() ended: "none", "completed", "cancelled", "error"
    err_reports,     \* number of "Error: ..." prints of _run_macro
    escaped,         \* an exception left _run_macro (the thread's target)
    stop_signalled,  \* stop_macro has cleared the Event for this worker's run
    checked,         \* the Event was polled since this worker's last action ended
    started_at       \* <<iteration, step>> of the action this worker began last

\* The other parts of the program, each held in one record.
VARIABLES
    play,    \* one uncancelled run of RecordedMacro.run, observed through its prints
    store,   \* the recorded-macro store: storage directory and registry
    rec,     \* the recorder (core/macro_recorder.py) and the keyboard it listens to
    win      \* the main window's start and stop of one recorded macro, and its workers

\* play: the run that is observed.
p_macro == play.macro            \* the RecordedMacro whose run() is executing
p_pc == play.pc                  \* "while", "for" or "returned"
p_step == play.step              \* RecordedMacro.run: step of the for loop (1-based)
console == play.console          \* what update_status has printed so far, in order

\* store: the storage directory and the registry over it.
files == store.files             \* storage_dir: file name (without ".json") -> content
registry == store.registry       \* macros._recorded_macros: name -> RecordedMacro
loaded == store.loaded           \* what the last load_all_macros returned, by file
recorded_macro == store.recorded_macro  \* the macro the recording dialog handed over last
saves == store.saves             \* number of recordings saved so far

\* rec: the fields of MacroRecorder, the clock and the keyboard.
recording == rec.recording                \* MacroRecorder.recording
rec_actions == rec.actions                \* MacroRecorder.actions
pressed_keys == rec.pressed_keys          \* key name -> time of its down-edge
last_action_time == rec.last_action_time  \* MacroRecorder.last_action_time (ms)
listener == rec.listener                  \* the keyboard.Listener is running
now == rec.now                            \* time.time() (ms since the recorder was made)
down == rec.down                          \* keys the user is holding down
ui == rec.ui                       \* where the UI thread is in its stop_recording call
stop_spawned == rec.stop_spawned   \* stop_recording threads that have not reached line 58
stop_checked == rec.stop_checked   \* ... that passed the check of line 58, before line 62
stop_cleared == rec.stop_cleared   \* ... that have set recording = False, before line 65
rec_events == rec.events           \* user inputs so far (key edges, start/stop requests)
last_event == rec.last_event       \* <<edge, key name>> a handler saw last while recording
waiting == rec.waiting             \* the one-shot listener of wait_for_start_key is running
callbacks == rec.callbacks         \* calls of on_start_callback so far

ctl_vars == <<current_macro, macro_thread, running, caller_pc, last_error>>
thr_vars == <<alive, spawned, pc, tmacro, iteration, step, ticks, held>>
obs_vars == <<last_report, executed, exit_kind, err_reports, escaped,
              stop_signalled, checked, started_at>>
vars == <<current_macro, macro_thread, running, caller_pc, last_error,
          alive, spawned, pc, tmacro, iteration, step, ticks, held,
          last_report, executed, exit_kind, err_reports, escaped,
          stop_signalled, checked, started_at>>

----------------------------------------------------------------------------
\* Actions of a recorded macro (recorded_macro.py, RecordedMacro.__init__).
KeyPress(k) == [type |-> "keypress", key |-> k, duration |-> 0, delay |-> 0]
KeyHold(k, d) == [type |-> "keyhold", key |-> k, duration |-> d, delay |-> 0]
Sleep(d) == [type |-> "sleep", key |-> "", duration |-> 0, delay |-> d]

\* set_loop that keeps whatever count it is given while looping is on.
set_loop_any_count(loop, loop_count) ==
    [loop |-> loop,
     loop_count |-> IF loop THEN loop_count ELSE None]

\* RecordedMacro.set_loop: the stored (loop, loop_count) pair; 0 stands for None.
set_loop(loop, loop_count) ==
    [loop |-> loop,
     loop_count |-> IF loop /\ loop_count # None /\ loop_count > 0
                    THEN loop_count ELSE None]

RecordedMacro(actions, loop, loop_count) ==
    [actions |-> actions] @@ set_loop(loop, loop_count)

\* The macros the caller may start.
MacroLib ==
    << RecordedMacro(<<KeyHold("b", 1), Sleep(1)>>, FALSE, 2),
       RecordedMacro(<<KeyPress("a")>>, TRUE, None),
       RecordedMacro(<<Sleep(1), KeyPress("a")>>, TRUE, 2),
       RecordedMacro(<<KeyPress("zz"), KeyPress("a")>>, FALSE, None) >>

Macros == 1..Len(MacroLib)

\* Keys that send_key_to_window finds in its key_map (the DIK_ table).
key_map == {"a", "b"}

\* RecordedMacro.run, lines 59-65: the iteration limit; None = infinite.
max_iterations(m) ==
    IF ~m.loop THEN 1
    ELSE IF m.loop_count # None /\ m.loop_count > 0 THEN m.loop_count
    ELSE None

\* The iteration limit tested with >= instead of >.
reached_max_at_limit(m, i) ==
    max_iterations(m) # None /\ i >= max_iterations(m)

\* RecordedMacro.run, line 73: the iteration limit has been passed.
reached_max(m, i) ==
    max_iterations(m) # None /\ i > max_iterations(m)

\* RecordedMacro.run, line 70: iteration += 1 (saturating once it is only printed).
next_iteration(m, i) ==
    IF max_iterations(m) = None /\ i >= IterCap THEN IterCap ELSE i + 1

\* A for loop that skips every other action.
next_step_skipping(s) == s + 2

\* RecordedMacro.run, line 90: enumerate() hands out the steps in list order.
next_step(s) == s + 1

\* MacroController.is_running.
is_running == macro_thread # None /\ alive[macro_thread]

\* A dict, a directory or a registry with nothing in it.
EmptyMap == [x \in {} |-> x]

\* RecordedMacro.__init__, lines 29-32, for a macro with a name and a description
\* (names are sequences of characters).
RecordedMacro_init(name, description, actions) ==
    [name |-> name, description |-> description, actions |-> actions,
     loop |-> TRUE, loop_count |-> None]

\* macro.set_loop(loop, loop_count) on such a macro.
with_loop(m, loop, loop_count) ==
    [m EXCEPT !.loop = set_loop(loop, loop_count).loop,
              !.loop_count = set_loop(loop, loop_count).loop_count]

\* No macro: the recording dialog has handed nothing over.
NoMacro == RecordedMacro_init(<<>>, "", <<>>)

\* The controller with no worker yet and nothing called.
ControllerOff ==
    /\ current_macro = None
    /\ macro_thread = None
    /\ running = FALSE
    /\ caller_pc = "idle"
    /\ last_error = "none"
    /\ alive = [t \in Threads |-> FALSE]
    /\ spawned = 0
    /\ pc = [t \in Threads |-> "unborn"]
    /\ tmacro = [t \in Threads |-> None]
    /\ iteration = [t \in Threads |-> 0]
    /\ step = [t \in Threads |-> 0]
    /\ ticks = [t \in Threads |-> 0]
    /\ held = [t \in Threads |-> ""]
    /\ last_report = [t \in Threads |-> "none"]
    /\ executed = [t \in Threads |-> 0]
    /\ exit_kind = [t \in Threads |-> "none"]
    /\ err_reports = [t \in Threads |-> 0]
    /\ escaped = [t \in Threads |-> FALSE]
    /\ stop_signalled = [t \in Threads |-> FALSE]
    /\ checked = [t \in Threads |-> FALSE]
    /\ started_at = [t \in Threads |-> <<0, 0>>]

Init ==
    /\ ControllerOff
    /\ play = None
    /\ store = None
    /\ rec = None
    /\ win = None

----------------------------------------------------------------------------
\* The caller thread: MacroController.start_macro and stop_macro.

\* start_macro without the is_running() guard of lines 33-35.
start_macro_unguarded(m) ==
    /\ caller_pc = "idle"
    /\ UNCHANGED <<play, store, rec, win>>
    /\ spawned < MaxThreads
    /\ LET t == spawned + 1 IN
        /\ current_macro' = m
        /\ running' = TRUE
        /\ macro_thread' = t
        /\ spawned' = t
        /\ alive' = [alive EXCEPT ![t] = TRUE]
        /\ pc' = [pc EXCEPT ![t] = "while"]
        /\ tmacro' = [tmacro EXCEPT ![t] = m]
        /\ last_error' = "none"
        /\ UNCHANGED <<caller_pc, iteration, step, ticks, held, obs_vars>>

start_macro(m) ==
    /\ caller_pc = "idle"
    /\ UNCHANGED <<play, store, rec, win>>
    /\ IF is_running
       THEN \* lines 33-35: raise MacroExecutionError("A macro is already running")
            /\ last_error' = "AlreadyRunning"
            /\ UNCHANGED <<current_macro, macro_thread, running, caller_pc,
                           thr_vars, obs_vars>>
       ELSE \* lines 37-47
            /\ spawned < MaxThreads
            /\ LET t == spawned + 1 IN
                /\ current_macro' = m
                /\ running' = TRUE
                /\ macro_thread' = t
                /\ spawned' = t
                /\ alive' = [alive EXCEPT ![t] = TRUE]
                /\ pc' = [pc EXCEPT ![t] = "while"]
                /\ tmacro' = [tmacro EXCEPT ![t] = m]
                /\ last_error' = "none"
                /\ UNCHANGED <<caller_pc, iteration, step, ticks, held,
                               obs_vars>>

\* stop_macro that drops its handles also when no worker is running.
stop_macro_clearing ==
    /\ caller_pc = "idle"
    /\ UNCHANGED <<play, store, rec, win>>
    /\ IF ~is_running
       THEN /\ last_error' = "none"
            /\ current_macro' = None
            /\ macro_thread' = None
            /\ UNCHANGED <<running, caller_pc, thr_vars, obs_vars>>
       ELSE /\ running' = FALSE
            /\ stop_signalled' = [stop_signalled EXCEPT ![macro_thread] = TRUE]
            /\ caller_pc' = "joining"
            /\ last_error' = "none"
            /\ UNCHANGED <<current_macro, macro_thread, thr_vars,
                           last_report, executed, exit_kind, err_reports, escaped,
                           checked, started_at>>

\* stop_macro, lines 52-61: up to the point where join(timeout=2.0) blocks.
\* Lines 52-54: with no running worker, a warning is logged and nothing else.
stop_macro ==
    /\ caller_pc = "idle"
    /\ UNCHANGED <<play, store, rec, win>>
    /\ IF ~is_running
       THEN /\ last_error' = "none"
            /\ UNCHANGED <<current_macro, macro_thread, running, caller_pc,
                           thr_vars, obs_vars>>
       ELSE /\ running' = FALSE
            /\ stop_signalled' = [stop_signalled EXCEPT ![macro_thread] = TRUE]
            /\ caller_pc' = "joining"
            /\ last_error' = "none"
            /\ UNCHANGED <<current_macro, macro_thread, thr_vars,
                           last_report, executed, exit_kind, err_reports, escaped,
                           checked, started_at>>

\* stop_macro that drops the macro but not the thread handle.
stop_join_keeping_thread ==
    /\ caller_pc = "joining"
    /\ UNCHANGED <<play, store, rec, win>>
    /\ caller_pc' = "idle"
    /\ current_macro' = None
    /\ UNCHANGED <<macro_thread, running, last_error, thr_vars, obs_vars>>

\* stop_macro that keeps its handle when the join timed out.
stop_join_keep_alive ==
    /\ caller_pc = "joining"
    /\ UNCHANGED <<play, store, rec, win>>
    /\ caller_pc' = "idle"
    /\ current_macro' = IF alive[macro_thread] THEN current_macro ELSE None
    /\ macro_thread' = IF alive[macro_thread] THEN macro_thread ELSE None
    /\ UNCHANGED <<running, last_error, thr_vars, obs_vars>>

\* stop_macro, lines 61-64: join returns, because the worker ended or because the
\* timeout elapsed with the worker still alive; the handles are dropped either way.
stop_join ==
    /\ caller_pc = "joining"
    /\ UNCHANGED <<play, store, rec, win>>
    /\ caller_pc' = "idle"
    /\ current_macro' = None
    /\ macro_thread' = None
    /\ UNCHANGED <<running, last_error, thr_vars, obs_vars>>

----------------------------------------------------------------------------
\* A worker thread: MacroController._run_macro -> RecordedMacro.run.

Actions(t) == MacroLib[tmacro[t]].actions
Action(t) == Actions(t)[step[t]]

\* A poll of running.is_set() found the Event clear: run() returns to _run_macro.
Cancelled(t) ==
    /\ pc' = [pc EXCEPT ![t] = "finally"]
    /\ exit_kind' = [exit_kind EXCEPT ![t] = "cancelled"]

\* run, lines 69-87: the while test, the iteration limit and the "Starting" report.
run_while(t) ==
    /\ alive[t] /\ pc[t] = "while"
    /\ UNCHANGED <<play, store, rec, win>>
    /\ LET m == MacroLib[tmacro[t]]
           i == next_iteration(m, iteration[t])
       IN IF ~running
          THEN /\ Cancelled(t)
               /\ UNCHANGED <<iteration, step, last_report, checked>>
          ELSE /\ iteration' = [iteration EXCEPT ![t] = i]
               /\ checked' = [checked EXCEPT ![t] = TRUE]
               /\ IF reached_max(m, i)
                  THEN \* lines 73-76: "Completed n loop(s)!"
                       /\ last_report' = [last_report EXCEPT ![t] = "completed"]
                       /\ exit_kind' = [exit_kind EXCEPT ![t] = "completed"]
                       /\ pc' = [pc EXCEPT ![t] = "finally"]
                       /\ UNCHANGED step
                  ELSE \* lines 79-90: "Starting recorded macro ...", enter the for loop
                       /\ last_report' = [last_report EXCEPT ![t] = "starting"]
                       /\ step' = [step EXCEPT ![t] = 1]
                       /\ pc' = [pc EXCEPT ![t] = "for"]
                       /\ UNCHANGED exit_kind
    /\ UNCHANGED <<ctl_vars, alive, spawned, tmacro, ticks, held,
                   executed, err_reports, escaped, stop_signalled, started_at>>

\* run, lines 90-128: the head of the for loop (the poll of line 91 and the
\* dispatch on the action type), or, past the last action, lines 124-128.
\* press_key polls again at line 118 with nothing observable in between: the two
\* polls of a key action are one step, taken when the second one reads the Event.
run_for(t) ==
    /\ alive[t] /\ pc[t] = "for"
    /\ UNCHANGED <<play, store, rec, win>>
    /\ LET m == MacroLib[tmacro[t]] IN
       IF step[t] > Len(Actions(t))
       THEN /\ executed' = [executed EXCEPT ![t] =
                               IF max_iterations(m) = None /\ @ >= IterCap THEN @ ELSE @ + 1]
            /\ IF ~m.loop
               THEN \* lines 125-128: "Recorded macro completed!"
                    /\ last_report' = [last_report EXCEPT ![t] = "completed"]
                    /\ exit_kind' = [exit_kind EXCEPT ![t] = "completed"]
                    /\ pc' = [pc EXCEPT ![t] = "finally"]
               ELSE /\ pc' = [pc EXCEPT ![t] = "while"]
                    /\ UNCHANGED <<last_report, exit_kind>>
            /\ UNCHANGED <<step, ticks, checked, started_at>>
       ELSE /\ UNCHANGED executed
            /\ IF ~running
               THEN \* lines 91-92
                    /\ Cancelled(t)
                    /\ UNCHANGED <<step, ticks, checked, started_at, last_report>>
               ELSE /\ checked' = [checked EXCEPT ![t] = TRUE]
                    /\ UNCHANGED exit_kind
                    /\ IF Action(t).type \in {"keypress", "keyhold"}
                       THEN \* lines 96-113 and press_key lines 117-131 (count = 1):
                            \* the poll before the key and the "Pressing ..." report
                            /\ last_report' = [last_report EXCEPT ![t] = "pressing"]
                            /\ pc' = [pc EXCEPT ![t] = "send"]
                            /\ UNCHANGED <<step, ticks, started_at>>
                       ELSE IF Action(t).type = "sleep"
                       THEN \* lines 115-118 and safe_sleep lines 73-76: "Waiting ..."
                            /\ last_report' = [last_report EXCEPT ![t] = "waiting"]
                            /\ ticks' = [ticks EXCEPT ![t] = Action(t).delay]
                            /\ started_at' = [started_at EXCEPT ![t] = <<iteration[t], step[t]>>]
                            /\ pc' = [pc EXCEPT ![t] = "sleep_loop"]
                            /\ UNCHANGED step
                       ELSE \* lines 121-122: unknown type, a warning and on to the next
                            /\ step' = [step EXCEPT ![t] = next_step(@)]
                            /\ started_at' = [started_at EXCEPT ![t] = <<iteration[t], step[t]>>]
                            /\ UNCHANGED <<pc, ticks, last_report>>
    /\ UNCHANGED <<ctl_vars, alive, spawned, tmacro, iteration, held,
                   err_reports, escaped, stop_signalled>>

\* Macro.safe_sleep, lines 78-84.
safe_sleep(t) ==
    /\ alive[t] /\ pc[t] = "sleep_loop"
    /\ UNCHANGED <<play, store, rec, win>>
    /\ IF ticks[t] = 0
       THEN \* the duration has elapsed: return True, next action
            /\ step' = [step EXCEPT ![t] = next_step(@)]
            /\ checked' = [checked EXCEPT ![t] = FALSE]
            /\ pc' = [pc EXCEPT ![t] = "for"]
            /\ UNCHANGED <<ticks, exit_kind>>
       ELSE IF ~running
       THEN \* lines 79-81: return False
            /\ Cancelled(t)
            /\ UNCHANGED <<step, ticks, checked>>
       ELSE \* line 82: time.sleep(0.1)
            /\ ticks' = [ticks EXCEPT ![t] = @ - 1]
            /\ checked' = [checked EXCEPT ![t] = TRUE]
            /\ UNCHANGED <<step, pc, exit_kind>>
    /\ UNCHANGED <<ctl_vars, alive, spawned, tmacro, iteration, held,
                   last_report, executed, err_reports, escaped, stop_signalled, started_at>>

\* send_key_to_window, lines 115-155 and 172: validation, then the key goes down.
\* A failure is raised before anything is pressed; press_key (lines 135-137) and
\* run (lines 130-132) re-raise it towards _run_macro.  The window handle stays
\* valid throughout (lines 115-116 do not raise): the failing input is the key.
send_key_to_window(t) ==
    /\ alive[t] /\ pc[t] = "send"
    /\ UNCHANGED <<play, store, rec, win>>
    /\ IF Action(t).key \notin key_map
       THEN \* lines 143-146: ValueError("Unsupported key ...")
            /\ pc' = [pc EXCEPT ![t] = "except"]
            /\ UNCHANGED <<held, ticks, started_at>>
       ELSE /\ started_at' = [started_at EXCEPT ![t] = <<iteration[t], step[t]>>]
            /\ held' = [held EXCEPT ![t] = Action(t).key]
            /\ IF Action(t).type = "keyhold" /\ Action(t).duration # 0
               THEN \* lines 153-156
                    /\ ticks' = [ticks EXCEPT ![t] = Action(t).duration]
                    /\ pc' = [pc EXCEPT ![t] = "hold_loop"]
               ELSE \* lines 171-172
                    /\ pc' = [pc EXCEPT ![t] = "tap"]
                    /\ UNCHANGED ticks
    /\ UNCHANGED <<ctl_vars, alive, spawned, tmacro, iteration, step,
                   last_report, executed, exit_kind, err_reports, escaped,
                   stop_signalled, checked>>

\* The hold loop returning on cancellation without direct_keys.release_key.
hold_loop_no_release(t) ==
    /\ alive[t] /\ pc[t] = "hold_loop"
    /\ UNCHANGED <<play, store, rec, win>>
    /\ IF ticks[t] = 0
       THEN /\ held' = [held EXCEPT ![t] = ""]
            /\ pc' = [pc EXCEPT ![t] = "after_send"]
            /\ checked' = [checked EXCEPT ![t] = FALSE]
            /\ UNCHANGED ticks
       ELSE IF ~running
       THEN /\ checked' = [checked EXCEPT ![t] = FALSE]
            /\ pc' = [pc EXCEPT ![t] = "after_send"]
            /\ UNCHANGED <<ticks, held>>
       ELSE /\ ticks' = [ticks EXCEPT ![t] = @ - 1]
            /\ checked' = [checked EXCEPT ![t] = TRUE]
            /\ UNCHANGED <<pc, held>>
    /\ UNCHANGED <<ctl_vars, alive, spawned, tmacro, iteration, step,
                   last_report, executed, exit_kind, err_reports, escaped,
                   stop_signalled, started_at>>

\* send_key_to_window, lines 157-163: hold the key, polling every 10 ms.
hold_loop(t) ==
    /\ alive[t] /\ pc[t] = "hold_loop"
    /\ UNCHANGED <<play, store, rec, win>>
    /\ IF ticks[t] = 0
       THEN \* lines 163 and 176-179: the duration has elapsed, release and return
            /\ held' = [held EXCEPT ![t] = ""]
            /\ pc' = [pc EXCEPT ![t] = "after_send"]
            /\ checked' = [checked EXCEPT ![t] = FALSE]
            /\ UNCHANGED ticks
       ELSE IF ~running
       THEN \* lines 158-160: release and return
            /\ held' = [held EXCEPT ![t] = ""]
            /\ checked' = [checked EXCEPT ![t] = FALSE]
            /\ pc' = [pc EXCEPT ![t] = "after_send"]
            /\ UNCHANGED ticks
       ELSE \* line 162: time.sleep(0.01)
            /\ ticks' = [ticks EXCEPT ![t] = @ - 1]
            /\ checked' = [checked EXCEPT ![t] = TRUE]
            /\ UNCHANGED <<pc, held>>
    /\ UNCHANGED <<ctl_vars, alive, spawned, tmacro, iteration, step,
                   last_report, executed, exit_kind, err_reports, escaped,
                   stop_signalled, started_at>>

\* send_key_to_window, lines 173-179: the tap, time.sleep(0.1) and release; then,
\* as after a hold that ran its time, a poll that decides nothing but the last
\* time.sleep(0.1), and the injector call returns.
tap_release(t) ==
    /\ alive[t] /\ pc[t] = "tap"
    /\ UNCHANGED <<play, store, rec, win>>
    /\ held' = [held EXCEPT ![t] = ""]
    /\ checked' = [checked EXCEPT ![t] = FALSE]
    /\ pc' = [pc EXCEPT ![t] = "after_send"]
    /\ UNCHANGED <<ctl_vars, alive, spawned, tmacro, iteration, step, ticks,
                   last_report, executed, exit_kind, err_reports, escaped,
                   stop_signalled, started_at>>

\* Macro.press_key, lines 139-149 (count = 1): the poll after the key, the
\* "Released ..." report, return True and on to the next action.
press_key_after(t) ==
    /\ alive[t] /\ pc[t] = "after_send"
    /\ UNCHANGED <<play, store, rec, win>>
    /\ IF ~running
       THEN /\ Cancelled(t)
            /\ UNCHANGED <<last_report, checked, step>>
       ELSE /\ last_report' = [last_report EXCEPT ![t] = "released"]
            /\ checked' = [checked EXCEPT ![t] = TRUE]
            /\ step' = [step EXCEPT ![t] = next_step(@)]
            /\ pc' = [pc EXCEPT ![t] = "for"]
            /\ UNCHANGED exit_kind
    /\ UNCHANGED <<ctl_vars, alive, spawned, tmacro, iteration, ticks, held,
                   executed, err_reports, escaped, stop_signalled, started_at>>

\* _run_macro whose except clause lets the exception through.
run_macro_except_reraise(t) ==
    /\ alive[t] /\ pc[t] = "except"
    /\ UNCHANGED <<play, store, rec, win>>
    /\ escaped' = [escaped EXCEPT ![t] = TRUE]
    /\ exit_kind' = [exit_kind EXCEPT ![t] = "error"]
    /\ pc' = [pc EXCEPT ![t] = "finally"]
    /\ UNCHANGED <<ctl_vars, alive, spawned, tmacro, iteration, step, ticks,
                   held, last_report, executed, err_reports, stop_signalled, checked,
                   started_at>>

\* _run_macro, lines 84-86: the exception is caught and printed once.
run_macro_except(t) ==
    /\ alive[t] /\ pc[t] = "except"
    /\ UNCHANGED <<play, store, rec, win>>
    /\ err_reports' = [err_reports EXCEPT ![t] = @ + 1]
    /\ last_report' = [last_report EXCEPT ![t] = "error"]
    /\ exit_kind' = [exit_kind EXCEPT ![t] = "error"]
    /\ pc' = [pc EXCEPT ![t] = "finally"]
    /\ UNCHANGED <<ctl_vars, alive, spawned, tmacro, iteration, step, ticks,
                   held, executed, escaped, stop_signalled, checked, started_at>>

\* _run_macro, lines 87-89: finally running.clear(), a line in the log (nothing
\* is printed, update_status is not called), and the thread ends; its frame (the
\* locals of run and what was observed of this run) is gone with it.  The
\* controller's current_macro and macro_thread are not touched.
run_macro_finally(t) ==
    /\ alive[t] /\ pc[t] = "finally"
    /\ UNCHANGED <<play, store, rec, win>>
    /\ running' = FALSE
    /\ alive' = [alive EXCEPT ![t] = FALSE]
    /\ pc' = [pc EXCEPT ![t] = "done"]
    /\ tmacro' = [tmacro EXCEPT ![t] = None]
    /\ iteration' = [iteration EXCEPT ![t] = 0]
    /\ step' = [step EXCEPT ![t] = 0]
    /\ ticks' = [ticks EXCEPT ![t] = 0]
    /\ last_report' = [last_report EXCEPT ![t] = "none"]
    /\ executed' = [executed EXCEPT ![t] = 0]
    /\ exit_kind' = [exit_kind EXCEPT ![t] = "none"]
    /\ err_reports' = [err_reports EXCEPT ![t] = 0]
    /\ stop_signalled' = [stop_signalled EXCEPT ![t] = FALSE]
    /\ checked' = [checked EXCEPT ![t] = FALSE]
    /\ started_at' = [started_at EXCEPT ![t] = <<0, 0>>]
    /\ UNCHANGED <<current_macro, macro_thread, caller_pc, last_error,
                   spawned, held, escaped>>

WorkerStep(t) ==
    \/ run_while(t)
    \/ run_for(t)
    \/ safe_sleep(t)
    \/ send_key_to_window(t)
    \/ hold_loop(t)
    \/ tap_release(t)
    \/ press_key_after(t)
    \/ run_macro_except(t)
    \/ run_macro_finally(t)

Next ==
    \/ \E m \in Macros : start_macro(m)
    \/ stop_macro
    \/ stop_join
    \/ \E t \in Threads : WorkerStep(t)

Spec == Init /\ [][Next]_vars

\* Scheduling: every live worker thread keeps running, and a blocked join returns
\* (the worker ended or the 2 s timeout elapsed).  The caller is free never to call.
FairSpec ==
    /\ Spec
    /\ \A t \in Threads : WF_vars(WorkerStep(t))
    /\ WF_vars(stop_join)

----------------------------------------------------------------------------
\* One run of RecordedMacro.run with the Event set throughout and an injector
\* that accepts every key: what the observer is told, message by message.
\* Durations are in hundredths of a second.

\* Longest action list of the macros whose run is observed.
PlayMaxLen == 3

\* An action whose type run() does not know (lines 121-122).
UnknownAction == [type |-> "click", key |-> "", duration |-> 0, delay |-> 0]

\* The actions the observed macros are made of.
PlayAlphabet ==
    {KeyPress("a"), Sleep(50), KeyHold("b", 120), KeyHold("b", 0), UnknownAction}

RECURSIVE SeqsUpTo(_, _)
\* All sequences over S of length at most n.
SeqsUpTo(S, n) ==
    IF n = 0 THEN {<<>>}
    ELSE LET shorter == SeqsUpTo(S, n - 1)
         IN shorter \cup {Append(q, x) : q \in shorter, x \in S}

\* The observed macros: every action list up to PlayMaxLen, run Once or twice.
PlayMacros ==
    {RecordedMacro(a, l[1], l[2]) :
        a \in SeqsUpTo(PlayAlphabet, PlayMaxLen), l \in {<<FALSE, None>>, <<TRUE, 2>>}}

\* str.upper() on a key name.
upper(k) ==
    CASE k = "a" -> "A" [] k = "b" -> "B" [] k = "zz" -> "ZZ" [] OTHER -> k

\* f"{duration:.1f}": hundredths to the tenths that are shown.  HalvesUp are
\* the hundredths below 2 s ending in 5 that "{:.1f}" rounds up (the others are
\* binary fractions just below the half, or exact halves rounded to even).
format_1f(h) ==
    LET HalvesUp == {5, 45, 55, 65, 75, 105, 135, 155, 175, 185}
    IN IF h % 10 > 5 \/ (h % 10 = 5 /\ h \in HalvesUp) THEN h \div 10 + 1
       ELSE h \div 10

\* f"{duration:.2f}": hundredths to the hundredths that are shown.
format_2f(h) == (h \div 100) * 100 + (h % 100)

\* Macro.update_status: one printed line, its text with the numbers it carries.
update_status(text, key, shown, of, current_step, total_steps) ==
    [text |-> text, key |-> key, shown |-> shown, of |-> of,
     current_step |-> current_step, total_steps |-> total_steps]

\* press_key without the "Released ..." report of line 142.
press_key_silent_release(key, duration, current_step, total_steps) ==
    << IF duration # 0
       THEN update_status("Pressing K for D seconds", upper(key), format_2f(duration), 0,
                          current_step, total_steps)
       ELSE update_status("Pressing K", upper(key), 0, 0, current_step, total_steps) >>

\* Macro.press_key, lines 122-142 (count = 1, the key accepted, no cancellation):
\* the two reports around the injector call.
press_key(key, duration, current_step, total_steps) ==
    << IF duration # 0
       THEN update_status("Pressing K for D seconds", upper(key), format_2f(duration), 0,
                          current_step, total_steps)
       ELSE update_status("Pressing K", upper(key), 0, 0, current_step, total_steps),
       update_status("Released K", upper(key), 0, 0, current_step, total_steps) >>

\* Macro.safe_sleep, lines 73-76: the one report of a sleep.
safe_sleep_report(duration, current_step, total_steps) ==
    << update_status("Waiting for D seconds...", "", format_1f(duration), 0,
                     current_step, total_steps) >>

\* run, lines 94-122: what one action prints; nothing for an unknown type.
action_reports(action, current_step, total_steps) ==
    IF action.type = "keypress"
    THEN press_key(action.key, 0, current_step, total_steps)
    ELSE IF action.type = "keyhold"
    THEN press_key(action.key, action.duration, current_step, total_steps)
    ELSE IF action.type = "sleep"
    THEN safe_sleep_report(action.delay, current_step, total_steps)
    ELSE <<>>

\* run, lines 79-87: the report an iteration begins with.
starting_report(m, i) ==
    IF m.loop /\ max_iterations(m) = None
    THEN update_status("Starting recorded macro (Loop I)...", "", i, 0, 0, Len(m.actions))
    ELSE IF m.loop
    THEN update_status("Starting recorded macro (Loop I/N)...", "", i, max_iterations(m),
                       0, Len(m.actions))
    ELSE update_status("Starting recorded macro...", "", 0, 0, 0, Len(m.actions))

PlayInit ==
    /\ \E m \in PlayMacros :
          play = [macro |-> m, pc |-> "while", iteration |-> 0, step |-> 0,
                  console |-> <<>>]
    /\ ControllerOff
    /\ store = None
    /\ rec = None
    /\ win = None

\* run, lines 69-87 with the Event set.
play_while ==
    /\ p_pc = "while"
    /\ LET i == play.iteration + 1
           n == Len(p_macro.actions)
       IN IF reached_max(p_macro, i)
          THEN play' = [play EXCEPT
                          !.iteration = i,
                          !.console = Append(console,
                              update_status("Completed N loop(s)!", "",
                                            max_iterations(p_macro), 0, n, n)),
                          !.pc = "returned"]
          ELSE play' = [play EXCEPT
                          !.iteration = i,
                          !.console = Append(console, starting_report(p_macro, i)),
                          !.step = 1,
                          !.pc = "for"]
    /\ UNCHANGED <<vars, store, rec, win>>

\* run, lines 90-122: one action of the for loop, begun and finished.
play_for ==
    /\ p_pc = "for" /\ p_step <= Len(p_macro.actions)
    /\ play' = [play EXCEPT
                  !.console = console \o action_reports(p_macro.actions[p_step], p_step,
                                                        Len(p_macro.actions)),
                  !.step = next_step(p_step)]
    /\ UNCHANGED <<vars, store, rec, win>>

\* run, lines 124-128: past the last action.
play_for_end ==
    /\ p_pc = "for" /\ p_step > Len(p_macro.actions)
    /\ IF ~p_macro.loop
       THEN play' = [play EXCEPT
                       !.console = Append(console,
                           update_status("Recorded macro completed!", "", 0, 0,
                                         Len(p_macro.actions), Len(p_macro.actions))),
                       !.pc = "returned"]
       ELSE play' = [play EXCEPT !.pc = "while"]
    /\ UNCHANGED <<vars, store, rec, win>>

PlayNext ==
    \/ play_while
    \/ play_for
    \/ play_for_end

all_vars == <<vars, play, store, rec, win>>

PlaySpec == PlayInit /\ [][PlayNext]_all_vars

----------------------------------------------------------------------------
\* The recorded-macro store: MacroStorage (utils/macro_storage.py), the registry
\* of macros/__init__.py, RecordedMacro.to_dict / from_dict, and the two flows of
\* the main window that write to it (record_macro, delete_macro).  Names and file
\* names are sequences of characters.

\* Recordings that may be saved in one behaviour.
MaxSaves == 2
\* Files that may lie in the storage directory when the program starts.
MaxForeign == 2

\* str.isalnum, str.isspace and str.lower on the characters that occur.
isalnum(c) == c \in {"T", "t", "a", "b", "m", "n", "o", "w", "x", "z", "B", "F", "6"}
isspace(c) == c = " "
lower(c) == CASE c = "T" -> "t" [] c = "B" -> "b" [] c = "F" -> "f" [] OTHER -> c

RECURSIVE lstrip(_)
\* str.lstrip(): leading whitespace removed.
lstrip(s) == IF s # <<>> /\ isspace(Head(s)) THEN lstrip(Tail(s)) ELSE s

RECURSIVE rstrip(_)
\* str.rstrip(): trailing whitespace removed.
rstrip(s) ==
    IF s # <<>> /\ isspace(s[Len(s)]) THEN rstrip(SubSeq(s, 1, Len(s) - 1)) ELSE s

\* str.strip().
strip(s) == rstrip(lstrip(s))

\* Length of the run of non-whitespace characters s begins with.
WordLen(s) ==
    IF \E i \in 1..Len(s) : isspace(s[i])
    THEN (CHOOSE i \in 1..Len(s) : isspace(s[i]) /\ \A j \in 1..(i - 1) : ~isspace(s[j])) - 1
    ELSE Len(s)

RECURSIVE split(_)
\* str.split(): the words between runs of whitespace.
split(s) ==
    LET t == lstrip(s)
    IN IF t = <<>> THEN <<>>
       ELSE <<SubSeq(t, 1, WordLen(t))>> \o split(SubSeq(t, WordLen(t) + 1, Len(t)))

RECURSIVE join(_, _)
\* sep.join(words).
join(sep, words) ==
    IF words = <<>> THEN <<>>
    ELSE IF Len(words) = 1 THEN words[1]
    ELSE words[1] \o <<sep>> \o join(sep, Tail(words))

\* MacroStorage._make_safe_filename, lines 179-183.
make_safe_filename(name) ==
    LET safe == [i \in 1..Len(name) |->
                    IF isalnum(name[i]) \/ name[i] \in {" ", "-", "_"} THEN name[i] ELSE "_"]
        joined == join("_", split(safe))
    IN [i \in 1..Len(joined) |-> lower(joined[i])]

\* to_dict that leaves the description out.
to_dict_without_description(m) ==
    [name |-> m.name, actions |-> m.actions,
     loop |-> m.loop, loop_count |-> m.loop_count]

\* RecordedMacro.to_dict, lines 140-146.
to_dict(m) ==
    [name |-> m.name, description |-> m.description, actions |-> m.actions,
     loop |-> m.loop, loop_count |-> m.loop_count]

\* dict.get(key, default).
get(data, key, default) == IF key \in DOMAIN data THEN data[key] ELSE default

\* RecordedMacro.from_dict, lines 157-161: data["name"] or data["actions"] raises
\* KeyError.  Nothing else about the record is looked at.
from_dict_raises(data) == ~({"name", "actions"} \subseteq DOMAIN data)

\* RecordedMacro.from_dict, lines 157-166, when it does not raise.
from_dict(data) ==
    with_loop(RecordedMacro_init(data["name"],
                                 get(data, "description", "Custom recorded macro"),
                                 data["actions"]),
              get(data, "loop", TRUE), get(data, "loop_count", None))

\* A file as json.dump writes it: json.load gives the dict back.
json_dump(data) == [json |-> TRUE, data |-> data]

\* A file json.load cannot parse.
Garbage == [json |-> FALSE, data |-> EmptyMap]

\* MacroStorage.load_macro, lines 63-82, returns a macro (does not return None).
load_macro_ok(content) == content.json /\ ~from_dict_raises(content.data)

\* MacroStorage.load_macro, lines 71-78: the macro it returns then.
load_macro(content) == from_dict(content.data)

\* load_all_macros that gives up at the first file that does not load.
load_all_macros_halting(dir) ==
    IF \A f \in DOMAIN dir : load_macro_ok(dir[f])
    THEN [f \in DOMAIN dir |-> load_macro(dir[f])]
    ELSE EmptyMap

\* MacroStorage.load_all_macros, lines 90-104: the macros of the files that load,
\* here kept with the file each came from (the list itself is in glob order).
load_all_macros(dir) ==
    [f \in {g \in DOMAIN dir : load_macro_ok(dir[g])} |-> load_macro(dir[f])]

RECURSIVE Registries(_, _)
\* reload_recorded_macros, lines 52-56: the dicts the loop can build for the names
\* N from the list lst; where two files carry one name, the later in glob order
\* stays, which may be either.
Registries(N, lst) ==
    IF N = {} THEN {EmptyMap}
    ELSE LET n == CHOOSE x \in N : TRUE
         IN {(n :> lst[f]) @@ r :
                r \in Registries(N \ {n}, lst),
                f \in {g \in DOMAIN lst : lst[g].name = n}}

\* Names of PREBUILT_MACROS (one short name stands for the three long ones).
PrebuiltNames == {<<"B", "F", "6">>}

\* macros.get_all_macro_names: prebuilt first, then recorded.
get_all_macro_names == PrebuiltNames \cup DOMAIN registry

\* The instance PREBUILT_MACROS holds under a prebuilt name.
Prebuilt(name) == [prebuilt |-> TRUE, name |-> name]

\* get_macro_by_name that looks among the recorded macros first.
get_macro_by_name_recorded_first(name) ==
    IF name \in DOMAIN registry THEN registry[name]
    ELSE IF name \in PrebuiltNames THEN Prebuilt(name)
    ELSE None

\* macros.get_macro_by_name, lines 70-76: prebuilt macros first, then
\* _recorded_macros.get(name).
get_macro_by_name(name) ==
    IF name \in PrebuiltNames THEN Prebuilt(name)
    ELSE IF name \in DOMAIN registry THEN registry[name]
    ELSE None

\* Files the storage directory may hold at startup besides nothing: two that the
\* program wrote earlier, and files edited or dropped there by hand.
ForeignFiles ==
    { << <<"t">>, json_dump(to_dict(with_loop(
            RecordedMacro_init(<<"T">>, "d", <<KeyPress("a")>>), TRUE, 2))) >>,
      << <<"w">>, json_dump([name |-> <<"w">>, actions |-> <<Sleep(50)>>]) >>,
      << <<"x">>, Garbage >>,
      << <<"n">>, json_dump([actions |-> <<KeyPress("a")>>, loop |-> FALSE]) >>,
      << <<"m">>, json_dump([name |-> <<"m">>, description |-> "d"]) >>,
      << <<"o">>, json_dump([name |-> <<"o">>,
                             actions |-> <<UnknownAction, KeyPress("a")>>]) >>,
      << <<"z">>, json_dump([name |-> <<"z">>, description |-> "d",
                             actions |-> <<KeyHold("b", 0), Sleep(0)>>,
                             loop |-> TRUE, loop_count |-> -1]) >>,
      \* a file that carries the name of a prebuilt macro
      << <<"b", "f", "6">>, json_dump([name |-> <<"B", "F", "6">>,
                                       actions |-> <<KeyPress("a")>>]) >>,
      \* a macro file kept under a file name of the user's own
      << <<"c">>, json_dump(to_dict(with_loop(
            RecordedMacro_init(<<"t">>, "d", <<KeyPress("a")>>), FALSE, None))) >> }

\* What the user may type into the name field of the save dialog.
TypedNames ==
    {<<"T">>, <<"t">>, <<"a", " ", "b">>, <<" ", "a", "!", "b">>, <<" ">>, <<"B", "F", "6">>}

\* What the recorder hands to the save flow.
RecordedActions == {<<KeyPress("a"), Sleep(50), KeyHold("b", 120)>>}

\* reload_recorded_macros on the directory dir: what it may leave in the registry,
\* with what load_all_macros returned.
reload_recorded_macros(dir) ==
    LET lst == load_all_macros(dir)
    IN {[loaded |-> lst, registry |-> r] : r \in Registries({lst[f].name : f \in DOMAIN lst}, lst)}

\* initialize_macro_storage has run on whatever the directory held: a directory
\* made of at most MaxForeign <<file name, content>> pairs.
StoreInit ==
    /\ \E dir \in {[f \in {d[1] : d \in D} |-> (CHOOSE d \in D : d[1] = f)[2]] :
                     D \in {E \in SUBSET ForeignFiles : Cardinality(E) <= MaxForeign}} :
          \E r \in reload_recorded_macros(dir) :
             store = [files |-> dir, registry |-> r.registry, loaded |-> r.loaded,
                      recorded_macro |-> NoMacro, saves |-> 0]
    /\ ControllerOff
    /\ play = None
    /\ rec = None
    /\ win = None

\* MainWindow.record_macro, lines 1018-1028, with the save dialog it opens
\* (MacroSaveDialog._save, MacroRecordingDialog._save_macro): the name is checked,
\* the macro built, written to its file, and the registry reloaded.
record_macro(typed, description, loop, actions) ==
    /\ saves < MaxSaves
    /\ LET name == strip(typed) IN
       IF name = <<>> \/ name \in get_all_macro_names
       THEN \* "Missing Name" / "Duplicate Name": nothing is saved
            UNCHANGED store
       ELSE LET m == with_loop(RecordedMacro_init(name,
                                   IF description = "" THEN "Custom recorded macro"
                                   ELSE description,
                                   actions),
                               loop, None)
                \* save_macro, lines 37-45: open(file_path, 'w') replaces the file
                written == (make_safe_filename(name) :> json_dump(to_dict(m))) @@ files
            IN \E r \in reload_recorded_macros(written) :
                  store' = [files |-> written, registry |-> r.registry,
                            loaded |-> r.loaded, recorded_macro |-> m,
                            saves |-> saves + 1]
    /\ UNCHANGED <<vars, play, rec, win>>

\* MainWindow.delete_macro, lines 1062-1084, for the selected name.
delete_macro(name) ==
    /\ name \in get_all_macro_names
    /\ IF name \notin DOMAIN registry
       THEN \* is_recorded_macro is false: "Cannot Delete"
            UNCHANGED store
       ELSE IF make_safe_filename(name) \notin DOMAIN files
       THEN \* MacroStorage.delete_macro, lines 119-122: returns False
            UNCHANGED store
       ELSE LET kept == [f \in DOMAIN files \ {make_safe_filename(name)} |-> files[f]]
            IN \E r \in reload_recorded_macros(kept) :
                  store' = [store EXCEPT !.files = kept, !.registry = r.registry,
                                         !.loaded = r.loaded]
    /\ UNCHANGED <<vars, play, rec, win>>

StoreNext ==
    \/ \E typed \in TypedNames, description \in {"", "d"}, loop \in BOOLEAN,
          actions \in RecordedActions :
            record_macro(typed, description, loop, actions)
    \/ \E name \in get_all_macro_names : delete_macro(name)

StoreSpec == StoreInit /\ [][StoreNext]_all_vars

----------------------------------------------------------------------------
\* The recorder: MacroRecorder (core/macro_recorder.py).  pynput calls the two
\* handlers on its listener thread, one event at a time; stop_recording runs on
\* the thread the stop key spawns or on the UI thread.  Times are milliseconds,
\* recorded durations hundredths of a second.

\* User inputs (key edges, start and stop requests) in one behaviour.
MaxEvents == 5
\* Clock ticks in one behaviour.
MaxTicks == 3
\* One clock tick, in ms.
Tick == 100
\* What one tick of a behaviour may take longer than that, in ms: time.time() is
\* not a multiple of a hundredth of a second.
Jitter == 6
\* The gap after which a delay is recorded (lines 70 and 175), in ms.
SleepThreshold == 100
\* The hold time above which a key-up is a keyhold (line 188), in ms.
HoldThreshold == 200

\* pynput key objects: a KeyCode has a char, a Key member has a name.
KeyCode(c) == [char |-> <<c>>, name |-> <<>>]
SpecialKey(n) == [char |-> <<>>, name |-> n]

\* The keys the user has.
Keyboard ==
    {KeyCode("a"), KeyCode("F"), SpecialKey(<<"f", "1", "2">>),
     SpecialKey(<<"e", "s", "c">>)}

\* A recorder whose stop key is f9.
stop_key_f9 == <<"f", "9">>

\* MacroRecorder.stop_key.
stop_key == <<"e", "s", "c">>

\* Lines 97-102 (and 143-148): the key name, lowercased.
key_name(key) ==
    LET raw == IF key.char # <<>> THEN key.char ELSE key.name
    IN [i \in 1..Len(raw) |-> lower(raw[i])]

\* The decimal digits.
Digit ==
    [c \in {"0", "1", "2", "3", "4", "5", "6", "7", "8", "9"} |->
        CASE c = "0" -> 0 [] c = "1" -> 1 [] c = "2" -> 2 [] c = "3" -> 3 [] c = "4" -> 4
          [] c = "5" -> 5 [] c = "6" -> 6 [] c = "7" -> 7 [] c = "8" -> 8 [] c = "9" -> 9]

\* int(s) raises ValueError (key names carry no sign, blank or underscore).
int_raises(s) == s = <<>> \/ \E i \in 1..Len(s) : s[i] \notin DOMAIN Digit

RECURSIVE int(_)
\* int(s) for a string of digits.
int(s) ==
    IF Len(s) = 1 THEN Digit[s[1]]
    ELSE 10 * int(SubSeq(s, 1, Len(s) - 1)) + Digit[s[Len(s)]]

\* A function-key test that knows one digit only.
is_function_key_one_digit(name) ==
    /\ name # <<>> /\ Head(name) = "f" /\ Len(name) <= 2
    /\ ~int_raises(Tail(name))
    /\ 1 <= int(Tail(name)) /\ int(Tail(name)) <= 12

\* Lines 105-113 (and 151-163): the key is one of f1..f12.
is_function_key(name) ==
    /\ name # <<>> /\ Head(name) = "f" /\ Len(name) <= 3
    /\ ~int_raises(Tail(name))
    /\ 1 <= int(Tail(name)) /\ int(Tail(name)) <= 12

\* round(seconds, 2) of a time difference in ms, in hundredths.
round2(ms) == (ms + 5) \div 10

\* A dict without the key k.
del(d, k) == [x \in DOMAIN d \ {k} |-> d[x]]

\* MacroRecorder.__init__, lines 17-27: a recorder that has not recorded yet,
\* at the moment the recording dialog makes it.
MacroRecorder_init ==
    [recording |-> FALSE, actions |-> <<>>, pressed_keys |-> EmptyMap,
     last_action_time |-> 0, listener |-> FALSE, now |-> 0, down |-> {},
     ui |-> "idle", stop_spawned |-> 0, stop_checked |-> 0, stop_cleared |-> 0,
     events |-> 0, last_event |-> <<"none", <<>>>>,
     waiting |-> FALSE, callbacks |-> 0, raised |-> 0]

RecInit ==
    /\ rec = MacroRecorder_init
    /\ ControllerOff
    /\ play = None
    /\ store = None
    /\ win = None

\* time.time() moves on.
tick ==
    /\ now < MaxTicks * Tick
    /\ \E d \in {Tick} \cup (IF now % Tick = 0 THEN {Tick + Jitter} ELSE {}) :
          rec' = [rec EXCEPT !.now = now + d]
    /\ UNCHANGED <<vars, play, store, win>>

\* A start of a recording that keeps the down-edges tracked before it.
toggle_recording_keeping_pressed_keys ==
    /\ rec_events < MaxEvents
    /\ ui = "idle"
    /\ IF recording
       THEN rec' = [rec EXCEPT !.events = rec_events + 1,
                               !.ui = "called"]
       ELSE rec' = [rec EXCEPT !.events = rec_events + 1,
                               !.actions = <<>>,
                               !.recording = TRUE,
                               !.last_action_time = now,
                               !.listener = TRUE]
    /\ UNCHANGED <<vars, play, store, win>>

\* MainWindow's recording dialog, _toggle_recording lines 215-229, with
\* MacroRecorder.start_recording, lines 31-50: the UI thread, when it is not in
\* a call already, calls stop_recording while recording and starts a fresh
\* session otherwise.
toggle_recording ==
    /\ rec_events < MaxEvents
    /\ ui = "idle"
    /\ IF recording
       THEN rec' = [rec EXCEPT !.events = rec_events + 1,
                               !.ui = "called"]
       ELSE rec' = [rec EXCEPT !.events = rec_events + 1,
                               !.actions = <<>>,
                               !.recording = TRUE,
                               !.last_action_time = now,
                               !.pressed_keys = EmptyMap,
                               !.listener = TRUE]
    /\ UNCHANGED <<vars, play, store, win>>

\* A key press handler that keeps the latest down-edge of a key.
on_key_press_latest_down_edge(key) ==
    /\ rec_events < MaxEvents
    /\ LET pressed == [rec EXCEPT !.events = rec_events + 1, !.down = down \cup {key}]
           heard == [pressed EXCEPT !.last_event = <<"down", key_name(key)>>]
       IN IF ~listener \/ ~recording
          THEN rec' = pressed
          ELSE IF is_function_key(key_name(key))
          THEN rec' = heard
          ELSE IF key_name(key) = stop_key
          THEN rec' = [heard EXCEPT !.stop_spawned = stop_spawned + 1]
          ELSE rec' = [heard EXCEPT !.pressed_keys =
                          (key_name(key) :> now) @@ pressed_keys]
    /\ UNCHANGED <<vars, play, store, win>>

\* The user presses key, or holds it so that it repeats; with the listener
\* running pynput calls MacroRecorder._on_key_press, lines 92-127.
on_key_press(key) ==
    /\ rec_events < MaxEvents
    /\ LET pressed == [rec EXCEPT !.events = rec_events + 1, !.down = down \cup {key}]
           heard == [pressed EXCEPT !.last_event = <<"down", key_name(key)>>]
       IN IF ~listener \/ ~recording
          THEN rec' = pressed
          ELSE IF is_function_key(key_name(key))
          THEN \* lines 105-111
               rec' = heard
          ELSE IF key_name(key) = stop_key
          THEN \* lines 116-120: a thread is started on stop_recording
               rec' = [heard EXCEPT !.stop_spawned = stop_spawned + 1]
          ELSE \* lines 123-127: the first down-edge is kept
               rec' = [heard EXCEPT !.pressed_keys =
                          IF key_name(key) \in DOMAIN pressed_keys THEN pressed_keys
                          ELSE (key_name(key) :> now) @@ pressed_keys]
    /\ UNCHANGED <<vars, play, store, win>>

\* The delay since the last action, recorded also ahead of the first action.
delay_action_before_first_action ==
    IF now - last_action_time > SleepThreshold
    THEN <<Sleep(round2(now - last_action_time))>>
    ELSE <<>>

\* Lines 169-180: the delay since the last action, if it is to be recorded.
delay_action ==
    IF now - last_action_time > SleepThreshold /\ Len(rec_actions) > 0
    THEN <<Sleep(round2(now - last_action_time))>>
    ELSE <<>>

\* The action of the key that went up, a hold from 0.2 s on.
key_action_hold_at_threshold(name) ==
    IF name \in DOMAIN pressed_keys
    THEN IF now - pressed_keys[name] >= HoldThreshold
         THEN KeyHold(name, round2(now - pressed_keys[name]))
         ELSE KeyPress(name)
    ELSE KeyPress(name)

\* Lines 183-211: the action of the key that went up.
key_action(name) ==
    IF name \in DOMAIN pressed_keys
    THEN IF now - pressed_keys[name] > HoldThreshold
         THEN KeyHold(name, round2(now - pressed_keys[name]))
         ELSE KeyPress(name)
    ELSE KeyPress(name)

\* A key release handler that puts the action of the key first in the list.
on_key_release_action_first(key) ==
    /\ rec_events < MaxEvents
    /\ key \in down
    /\ LET released == [rec EXCEPT !.events = rec_events + 1, !.down = down \ {key}]
           heard == [released EXCEPT !.last_event = <<"up", key_name(key)>>]
       IN IF ~listener \/ ~recording
          THEN rec' = released
          ELSE IF is_function_key(key_name(key))
          THEN rec' = [heard EXCEPT !.pressed_keys = del(pressed_keys, key_name(key))]
          ELSE IF key_name(key) = stop_key
          THEN rec' = heard
          ELSE rec' = [heard EXCEPT
                          !.actions = <<key_action(key_name(key))>> \o delay_action
                                          \o rec_actions,
                          !.pressed_keys = del(pressed_keys, key_name(key)),
                          !.last_action_time = now]
    /\ UNCHANGED <<vars, play, store, win>>

\* The user lets go of key; with the listener running pynput calls
\* MacroRecorder._on_key_release, lines 138-214.
on_key_release(key) ==
    /\ rec_events < MaxEvents
    /\ key \in down
    /\ LET released == [rec EXCEPT !.events = rec_events + 1, !.down = down \ {key}]
           heard == [released EXCEPT !.last_event = <<"up", key_name(key)>>]
       IN IF ~listener \/ ~recording
          THEN rec' = released
          ELSE IF is_function_key(key_name(key))
          THEN \* lines 151-161
               rec' = [heard EXCEPT !.pressed_keys = del(pressed_keys, key_name(key))]
          ELSE IF key_name(key) = stop_key
          THEN \* lines 166-167
               rec' = heard
          ELSE rec' = [heard EXCEPT
                          !.actions = rec_actions \o delay_action
                                          \o <<key_action(key_name(key))>>,
                          !.pressed_keys = del(pressed_keys, key_name(key)),
                          !.last_action_time = now]
    /\ UNCHANGED <<vars, play, store, win>>

\* Who runs stop_recording: the UI thread, or a thread started by the stop key.
StopCallers == {"ui", "thread"}

\* stop_recording, lines 58-60: the check a call begins with.
stop_recording_check(by) ==
    /\ IF by = "ui" THEN ui = "called" ELSE stop_spawned > 0
    /\ rec' = IF by = "ui"
              THEN [rec EXCEPT !.ui = IF recording THEN "checked" ELSE "idle"]
              ELSE [rec EXCEPT
                      !.stop_spawned = stop_spawned - 1,
                      !.stop_checked = IF recording THEN stop_checked + 1
                                       ELSE stop_checked]
    /\ UNCHANGED <<vars, play, store, win>>

\* stop_recording, line 62.
stop_recording_clear(by) ==
    /\ IF by = "ui" THEN ui = "checked" ELSE stop_checked > 0
    /\ rec' = IF by = "ui"
              THEN [rec EXCEPT !.ui = "cleared", !.recording = FALSE]
              ELSE [rec EXCEPT !.stop_checked = stop_checked - 1,
                               !.stop_cleared = stop_cleared + 1,
                               !.recording = FALSE]
    /\ UNCHANGED <<vars, play, store, win>>

\* The trailing delay appended to an empty action list as well.
with_final_delay_on_empty_list ==
    IF now - last_action_time > SleepThreshold
    THEN Append(rec_actions, Sleep(round2(now - last_action_time)))
    ELSE rec_actions

\* Lines 65-75: the action list with the trailing delay, if there is to be one.
with_final_delay ==
    IF Len(rec_actions) > 0 /\ now - last_action_time > SleepThreshold
    THEN Append(rec_actions, Sleep(round2(now - last_action_time)))
    ELSE rec_actions

\* stop_recording, lines 65-84: the trailing delay, and the listener that
\* self.listener holds is stopped.
stop_recording_finish(by) ==
    /\ IF by = "ui" THEN ui = "cleared" ELSE stop_cleared > 0
    /\ rec' = IF by = "ui"
              THEN [rec EXCEPT !.ui = "idle",
                               !.actions = with_final_delay,
                               !.listener = FALSE,
                               !.waiting = FALSE]
              ELSE [rec EXCEPT !.stop_cleared = stop_cleared - 1,
                               !.actions = with_final_delay,
                               !.listener = FALSE,
                               !.waiting = FALSE]
    /\ UNCHANGED <<vars, play, store, win>>

RecNext ==
    \/ tick
    \/ toggle_recording
    \/ \E key \in Keyboard : on_key_press(key)
    \/ \E key \in Keyboard : on_key_release(key)
    \/ \E by \in StopCallers : stop_recording_check(by)
    \/ \E by \in StopCallers : stop_recording_clear(by)
    \/ \E by \in StopCallers : stop_recording_finish(by)

RecSpec == RecInit /\ [][RecNext]_all_vars

\* The stop key as pynput reports it.
EscKey == SpecialKey(<<"e", "s", "c">>)

RecFairNext ==
    \/ tick
    \/ toggle_recording
    \/ \E key \in {KeyCode("a"), EscKey} : on_key_press(key)
    \/ \E key \in {KeyCode("a"), EscKey} : on_key_release(key)
    \/ \E by \in StopCallers : stop_recording_check(by)
    \/ \E by \in StopCallers : stop_recording_clear(by)
    \/ \E by \in StopCallers : stop_recording_finish(by)

\* A call of stop_recording that has begun goes on: the thread the stop key
\* started is scheduled, and the UI thread returns from nothing else first.
RecFairSpec ==
    /\ RecInit /\ [][RecFairNext]_all_vars
    /\ \A by \in StopCallers :
          /\ WF_all_vars(stop_recording_check(by))
          /\ WF_all_vars(stop_recording_clear(by))
          /\ WF_all_vars(stop_recording_finish(by))

----------------------------------------------------------------------------
\* The recorder with handlers that fail: something inside the try block of
\* _on_key_press (lines 95-128) or _on_key_release (lines 141-215) raises, and
\* the except clause (lines 129-130, 216-217) logs it.  rec.raised counts these.

\* A handler whose exception gets out of it: pynput stops the listener.
handler_raises_uncaught(key, point) ==
    /\ rec_events < MaxEvents
    /\ listener /\ recording
    /\ point # "press" => key \in down
    /\ point \notin {"press", "release"} =>
          ~is_function_key(key_name(key)) /\ key_name(key) # stop_key
    /\ rec' = [rec EXCEPT !.events = rec_events + 1,
                          !.raised = rec.raised + 1,
                          !.listener = FALSE,
                          !.down = IF point = "press" THEN down \cup {key}
                                   ELSE down \ {key}]
    /\ UNCHANGED <<vars, play, store, win>>

\* The handler for an edge of key raises at point: "press" and "release" before
\* the handler has written anything, "after_delay" past line 180, "after_action"
\* past line 201 or 211, "after_del" past line 204.  What was written stays,
\* the rest of the handler is not run.
handler_raises(key, point) ==
    /\ rec_events < MaxEvents
    /\ listener /\ recording
    /\ point # "press" => key \in down
    /\ point \notin {"press", "release"} =>
          ~is_function_key(key_name(key)) /\ key_name(key) # stop_key
    /\ point = "after_del" => key_name(key) \in DOMAIN pressed_keys
    /\ LET name == key_name(key)
           seen == [rec EXCEPT !.events = rec_events + 1,
                               !.raised = rec.raised + 1,
                               !.down = IF point = "press" THEN down \cup {key}
                                        ELSE down \ {key}]
       IN rec' = CASE point \in {"press", "release"} -> seen
                   [] point = "after_delay" ->
                        [seen EXCEPT !.actions = rec_actions \o delay_action]
                   [] point = "after_action" ->
                        [seen EXCEPT !.actions = rec_actions \o delay_action
                                                     \o <<key_action(name)>>]
                   [] point = "after_del" ->
                        [seen EXCEPT !.actions = rec_actions \o delay_action
                                                     \o <<key_action(name)>>,
                                     !.pressed_keys = del(pressed_keys, name)]
    /\ UNCHANGED <<vars, play, store, win>>

FaultNext ==
    \/ RecFairNext
    \/ \E key \in {KeyCode("a"), EscKey},
          point \in {"press", "release", "after_delay", "after_action", "after_del"} :
            handler_raises(key, point)

FaultSpec == RecInit /\ [][FaultNext]_all_vars

----------------------------------------------------------------------------
\* The recorder in wait-for-start-key mode (wait_for_start_key, lines 240-282):
\* a caller asks an idle recorder to wait, the start key begins the recording,
\* the stop key or the caller's stop_recording ends it.

\* MacroRecorder.start_key.
start_key == <<"f", "9">>

\* The keys the user has in this mode.
WaitKeyboard == {KeyCode("a"), SpecialKey(start_key), EscKey}

\* wait_for_start_key, lines 277-282: the caller registers the one-shot
\* listener with a recorder that is idle: it does not record, no listener runs
\* and no call of stop_recording is under way.
wait_for_start_key ==
    /\ rec_events < MaxEvents
    /\ ~recording /\ ~listener /\ ~waiting
    /\ ui = "idle" /\ stop_spawned = 0 /\ stop_checked = 0 /\ stop_cleared = 0
    /\ rec' = [rec EXCEPT !.events = rec_events + 1, !.waiting = TRUE]
    /\ UNCHANGED <<vars, play, store, win>>

\* A one-shot listener that takes any key for the start key.
wait_on_press_any_key(key) ==
    /\ rec_events < MaxEvents
    /\ waiting
    /\ LET pressed == [rec EXCEPT !.events = rec_events + 1, !.down = down \cup {key}]
           stopped == [pressed EXCEPT !.waiting = FALSE]
       IN IF recording
          THEN rec' = [stopped EXCEPT !.callbacks = callbacks + 1]
          ELSE rec' = [stopped EXCEPT !.actions = <<>>,
                                      !.recording = TRUE,
                                      !.last_action_time = now,
                                      !.pressed_keys = EmptyMap,
                                      !.listener = TRUE,
                                      !.callbacks = callbacks + 1]
    /\ UNCHANGED <<vars, play, store, win>>

\* on_press of the one-shot listener, lines 246-275: on the start key the
\* listener is stopped, start_recording (lines 31-50) is called, then the
\* callback; any other key is let through.
wait_on_press(key) ==
    /\ rec_events < MaxEvents
    /\ waiting
    /\ LET pressed == [rec EXCEPT !.events = rec_events + 1, !.down = down \cup {key}]
           stopped == [pressed EXCEPT !.waiting = FALSE]
       IN IF key_name(key) # start_key
          THEN rec' = pressed
          ELSE IF recording
          THEN \* start_recording returns at line 33
               rec' = [stopped EXCEPT !.callbacks = callbacks + 1]
          ELSE rec' = [stopped EXCEPT !.actions = <<>>,
                                      !.recording = TRUE,
                                      !.last_action_time = now,
                                      !.pressed_keys = EmptyMap,
                                      !.listener = TRUE,
                                      !.callbacks = callbacks + 1]
    /\ UNCHANGED <<vars, play, store, win>>

\* The caller calls stop_recording (as the recording dialog does on cancel,
\* lines 319-320 of ui/macro_recording_dialog.py).
explicit_stop ==
    /\ rec_events < MaxEvents
    /\ ui = "idle"
    /\ recording
    /\ rec' = [rec EXCEPT !.events = rec_events + 1, !.ui = "called"]
    /\ UNCHANGED <<vars, play, store, win>>

\* A down-edge when the one-shot listener does not run: it goes to
\* _on_key_press if the recording listener runs, and is lost otherwise.
on_press_not_waiting(key) ==
    /\ ~waiting
    /\ on_key_press(key)

WaitNext ==
    \/ tick
    \/ wait_for_start_key
    \/ \E key \in WaitKeyboard : wait_on_press(key)
    \/ \E key \in WaitKeyboard : on_press_not_waiting(key)
    \/ \E key \in WaitKeyboard : on_key_release(key)
    \/ explicit_stop
    \/ \E by \in StopCallers : stop_recording_check(by)
    \/ \E by \in StopCallers : stop_recording_clear(by)
    \/ \E by \in StopCallers : stop_recording_finish(by)

WaitSpec == RecInit /\ [][WaitNext]_all_vars

----------------------------------------------------------------------------
\* The main window starting and stopping one recorded macro
\* (ui/main_window.py, core/macro_controller.py, macros/recorded_macro.py).
\* The macro object is the one held in the registry, so every worker started
\* with it and every set_loop of the window act on the same loop and
\* loop_count fields.

\* threading.Thread.is_alive of worker t.
worker_alive(t) == win.pc[t] \in {"run", "while", "for", "finally"}

\* MacroController.is_running as the window sees it.
controller_is_running ==
    win.macro_thread # None /\ worker_alive(win.macro_thread)

\* MainWindow._on_infinite_changed, lines 664-690, on the loop controls c (the
\* three Tk variables): the infinite flag is flipped, the count text follows.
on_infinite_changed(c) ==
    [c EXCEPT !.loop_infinite_var = ~c.loop_infinite_var,
              !.loop_count_var = IF ~c.loop_infinite_var THEN <<"inf">>
                                 ELSE <<"1">>]

\* MainWindow.update_description, lines 811-825: the loop controls after macro m
\* has been selected; str(loop_count) is its decimal digit.
loop_controls_of(m) ==
    on_infinite_changed(
        [loop_var |-> m.loop,
         loop_infinite_var |-> m.loop_count = None,
         loop_count_var |-> IF m.loop_count = None THEN <<"inf">>
                            ELSE <<CHOOSE c \in DOMAIN Digit : Digit[c] = m.loop_count>>])

\* MainWindow._get_loop_settings, lines 781-796: <<loop, loop_count>>.
get_loop_settings(c) ==
    IF ~c.loop_var THEN <<FALSE, None>>
    ELSE IF c.loop_infinite_var THEN <<TRUE, None>>
    ELSE IF c.loop_count_var = <<"inf">> \/ int_raises(c.loop_count_var)
    THEN <<TRUE, None>>
    ELSE <<TRUE, IF int(c.loop_count_var) > 0 THEN int(c.loop_count_var) ELSE None>>

\* The user selects the recorded macro in the combo box: update_description.
update_description ==
    /\ win.caller = "idle"
    /\ win' = [win EXCEPT !.controls = loop_controls_of(win), !.selected = TRUE]
    /\ UNCHANGED <<vars, play, store, rec>>

\* The user works a loop control: the loop check box, the infinite button, or
\* a count typed into the spin box while it is enabled.
touch_controls ==
    /\ win.caller = "idle"
    /\ \E c \in {[win.controls EXCEPT !.loop_var = ~win.controls.loop_var],
                 on_infinite_changed(win.controls)}
               \cup (IF win.controls.loop_var /\ ~win.controls.loop_infinite_var
                     THEN {[win.controls EXCEPT !.loop_count_var =
                              <<CHOOSE d \in DOMAIN Digit : Digit[d] = IterCap>>]}
                     ELSE {}) :
          win' = [win EXCEPT !.controls = c]
    /\ UNCHANGED <<vars, play, store, rec>>

\* MainWindow.start_macro with a recorded macro selected and the game window
\* found: the is_running guard, set_loop on the macro with what the loop
\* controls say, controller.start_macro.
MainWindow_start_macro ==
    /\ win.caller = "idle"
    /\ win.selected
    /\ ~controller_is_running
    /\ win.spawned < MaxThreads
    /\ LET t == win.spawned + 1
           settings == get_loop_settings(win.controls)
           policy == set_loop(settings[1], settings[2])
       IN win' = [win EXCEPT !.loop = policy.loop,
                             !.loop_count = policy.loop_count,
                             !.event = TRUE,
                             !.macro_thread = t,
                             !.spawned = t,
                             !.pc[t] = "run"]
    /\ UNCHANGED <<vars, play, store, rec>>

\* MainWindow.stop_macro up to the join of MacroController.stop_macro.
MainWindow_stop_macro ==
    /\ win.caller = "idle"
    /\ controller_is_running
    /\ win' = [win EXCEPT !.event = FALSE, !.caller = "joining"]
    /\ UNCHANGED <<vars, play, store, rec>>

\* join(timeout=2.0) returns, the worker dead or the two seconds over, and
\* stop_macro forgets the thread either way.
stop_macro_join ==
    /\ win.caller = "joining"
    /\ win' = [win EXCEPT !.macro_thread = None, !.caller = "idle"]
    /\ UNCHANGED <<vars, play, store, rec>>

\* RecordedMacro.run, lines 57-68: the iteration limit is read once.
worker_run_begin(t) ==
    /\ win.pc[t] = "run"
    /\ win' = [win EXCEPT !.max_iterations[t] = max_iterations(win),
                          !.iteration[t] = 0,
                          !.pc[t] = "while"]
    /\ UNCHANGED <<vars, play, store, rec>>

\* RecordedMacro.run, lines 69-76: the while test, the count and its limit.
worker_run_while(t) ==
    /\ win.pc[t] = "while"
    /\ LET limit == win.max_iterations[t]
           i == IF limit = None /\ win.iteration[t] >= IterCap
                THEN IterCap ELSE win.iteration[t] + 1
       IN IF ~win.event
          THEN win' = [win EXCEPT !.pc[t] = "finally"]
          ELSE win' = [win EXCEPT !.iteration[t] = i,
                                  !.pc[t] = IF limit # None /\ i > limit
                                            THEN "finally" ELSE "for"]
    /\ UNCHANGED <<vars, play, store, rec>>

\* RecordedMacro.run, lines 90-128: the actions of one iteration, given up
\* when the event is clear, then the test of self.loop as it is now.
worker_run_for(t) ==
    /\ win.pc[t] = "for"
    /\ win' = [win EXCEPT !.pc[t] = IF ~win.event \/ ~win.loop
                                    THEN "finally" ELSE "while"]
    /\ UNCHANGED <<vars, play, store, rec>>

\* MacroController._run_macro, lines 87-89: the worker clears the event and ends.
worker_run_finally(t) ==
    /\ win.pc[t] = "finally"
    /\ win' = [win EXCEPT !.event = FALSE, !.pc[t] = "dead"]
    /\ UNCHANGED <<vars, play, store, rec>>

\* MacroController.__init__ before any worker, a recorded macro as from_dict
\* made it, with one of the three loop policies, and the main window as its
\* __init__ leaves it: the first macro of the list, a built-in one, is selected
\* and update_description has set the loop controls for it (lines 828-832).
WindowInit ==
    /\ ControllerOff
    /\ play = None
    /\ store = None
    /\ rec = None
    /\ \E s \in {<<FALSE, None>>, <<TRUE, None>>, <<TRUE, IterCap>>} :
        win = [loop |-> set_loop(s[1], s[2]).loop,
              loop_count |-> set_loop(s[1], s[2]).loop_count,
              controls |-> on_infinite_changed(
                              [loop_var |-> TRUE, loop_infinite_var |-> TRUE,
                               loop_count_var |-> <<"inf">>]),
              selected |-> FALSE,
              macro_thread |-> None,
              event |-> FALSE,
              caller |-> "idle",
              spawned |-> 0,
              pc |-> [t \in Threads |-> "unborn"],
              max_iterations |-> [t \in Threads |-> None],
              iteration |-> [t \in Threads |-> 0]]

WindowNext ==
    \/ update_description
    \/ touch_controls
    \/ MainWindow_start_macro
    \/ MainWindow_stop_macro
    \/ stop_macro_join
    \/ \E t \in Threads : worker_run_begin(t)
    \/ \E t \in Threads : worker_run_while(t)
    \/ \E t \in Threads : worker_run_for(t)
    \/ \E t \in Threads : worker_run_finally(t)

WindowSpec == WindowInit /\ [][WindowNext]_all_vars

----------------------------------------------------------------------------
\* Properties.

\* C1: across any sequence of start() and stop() calls, a stop() whose join timed
\* out included, at most one worker that has not been cancelled exists: of the
\* workers that are still going to read the cancellation signal, at most one
\* finds it saying "run".
C1_AtMostOneUncancelledWorker ==
    Cardinality({t \in Threads : alive[t] /\ pc[t] # "finally" /\ running}) <= 1

\* C2: start() while a worker is active raises the already-running error, spawns no
\* thread and leaves current macro, worker handle and Event as they were, and
\* is_running() stays true; is_running() turns false only when the worker ends or
\* stop() drops the handle.  (start() is a step of the caller: the steps looked at
\* are those that move no worker on in its run.)
C2_StartWhileRunningRejected ==
    [][ /\ (is_running /\ UNCHANGED <<iteration, step, ticks, held>>) =>
              \A m \in Macros :
                 start_macro(m) =>
                    /\ last_error' = "AlreadyRunning"
                    /\ UNCHANGED <<current_macro, macro_thread, running, alive, spawned, pc>>
                    /\ is_running'
        /\ (is_running /\ ~is_running') =>
              (~alive'[macro_thread] \/ caller_pc = "joining") ]_vars

C2_Witness == last_error = "AlreadyRunning" /\ is_running

\* C3: once stop() has signalled cancellation for a run, every later poll of the
\* signal by that run's worker observes it as cancelled, whatever start() or
\* stop() calls follow.  Polls: worker t reads the Event in its next step.
C3_CancellationSticks ==
    [][ \A t \in Threads :
          LET Polls ==
                /\ alive[t]
                /\ \/ pc[t] \in {"while", "after_send"}
                   \/ pc[t] = "for" /\ step[t] <= Len(Actions(t))
                   \/ pc[t] \in {"sleep_loop", "hold_loop"} /\ ticks[t] > 0
          IN (stop_signalled[t] /\ Polls /\ WorkerStep(t)) => ~running ]_vars

\* C4: after stop() is called while a worker is active, that worker eventually
\* terminates, under fair scheduling, for every loop policy and action kind.
C4_StoppedWorkerTerminates ==
    \A t \in Threads : (alive[t] /\ stop_signalled[t]) ~> ~alive[t]

\* C5: a run that ends by completion has executed its action list exactly n times
\* under Count(n) and exactly once under Once (and never more than that while it
\* runs); a run under Infinite never ends by completion.
C5_LoopBounds ==
    \A t \in Threads : alive[t] =>
        LET m == MacroLib[tmacro[t]]
            \* the policy the macro was given, read off its stored fields
            IsOnce == ~m.loop
            IsCount == m.loop /\ m.loop_count # None
            IsInfinite == m.loop /\ m.loop_count = None
        IN
        /\ IsCount => /\ executed[t] <= m.loop_count
                      /\ exit_kind[t] = "completed" => executed[t] = m.loop_count
        /\ IsOnce => /\ executed[t] <= 1
                     /\ exit_kind[t] = "completed" => executed[t] = 1
        /\ IsInfinite => exit_kind[t] # "completed"

C5_Witness ==
    \E t \in Threads :
        /\ alive[t] /\ exit_kind[t] = "completed"
        /\ MacroLib[tmacro[t]].loop /\ MacroLib[tmacro[t]].loop_count # None
        /\ executed[t] = 2

\* C6: the cancellation signal is checked before and after every action, the last
\* action of an iteration included: no key is sent and no completion is reported
\* unless the signal was polled since the previous action ended.
C6_CheckedBeforeAndAfterEveryAction ==
    \A t \in Threads : alive[t] =>
        /\ pc[t] = "send" => checked[t]
        /\ last_report[t] = "completed" => checked[t]

C8_ActionsInOrder ==
    [][ \A t \in Threads :
            (alive'[t] /\ started_at'[t] # started_at[t]) =>
                LET a == started_at[t]
                    b == started_at'[t]
                    n == Len(MacroLib[tmacro'[t]].actions)
                IN \/ a = <<0, 0>> /\ b = <<1, 1>>
                   \/ b[1] = a[1] /\ b[2] = a[2] + 1 /\ b[2] <= n
                   \/ b[1] = a[1] + 1 /\ b[2] = 1 /\ a[2] = n
                   \/ b[1] = IterCap /\ a[1] = IterCap /\ b[2] = 1 /\ a[2] = n ]_vars

\* The second iteration of a two-action macro has begun.
C8_Witness ==
    \E t \in Threads :
        /\ alive[t] /\ Len(Actions(t)) = 2
        /\ started_at[t] = <<2, 1>>

\* C9: an injector failure aborts the run: the failing action is not retried and no
\* later action is begun, the error is printed exactly once, nothing escapes the
\* thread's target, the worker ends, and if it was the controller's worker
\* is_running() is false afterwards, so that start() is accepted.
C9_InjectorFailureAborts ==
    [][ \A t \in Threads :
          /\ (pc[t] = "send" /\ Action(t).key \notin key_map /\ pc'[t] # "send") =>
                pc'[t] = "except" /\ held'[t] = ""
          /\ (pc[t] = "except" /\ pc'[t] # "except") =>
                /\ pc'[t] = "finally"
                /\ exit_kind'[t] = "error"
                /\ err_reports'[t] = 1
          /\ (pc[t] = "finally" /\ exit_kind[t] = "error" /\ pc'[t] # "finally") =>
                /\ ~alive'[t]
                /\ macro_thread = t => ~is_running'
          /\ (pc[t] = "except" \/ exit_kind[t] = "error") =>
                /\ started_at'[t] \in {started_at[t], <<0, 0>>}
                /\ held'[t] = ""
                /\ err_reports'[t] <= 1
          /\ ~escaped'[t] ]_vars

C9_Witness ==
    \E t \in Threads :
        /\ pc[t] = "finally" /\ exit_kind[t] = "error" /\ err_reports[t] = 1
        /\ macro_thread = t

\* C10: when stop() returns from stopping an active run, whether the worker ended
\* within the join timeout or not, the current-macro reference is cleared and
\* is_running() is false, so an immediately following start() is accepted.
C10_StopClearsForRestart ==
    [][ stop_join => (current_macro' = None /\ macro_thread' = None /\ ~is_running') ]_vars

\* stop() has returned after a join that timed out: the stopped worker lives on.
C10_Witness ==
    /\ caller_pc = "idle" /\ current_macro = None /\ ~is_running
    /\ \E t \in Threads : alive[t] /\ stop_signalled[t]

\* C11: whenever a worker finishes, normally, by cancellation or by error, the
\* controller is back in a clean idle state without any stop() call: once the
\* controller's worker has ended and no stop() is in progress, the Event is clear
\* and the current-macro reference is cleared.
C11_FinishedWorkerLeavesCleanIdle ==
    \A t \in Threads :
        (macro_thread = t /\ pc[t] = "done" /\ caller_pc = "idle") =>
            (~running /\ current_macro = None)

\* C12: every run reports "done" to the observer exactly once, whether it ends
\* normally, by cancellation or by error: a worker that has left run() and is
\* about to end has made exactly one terminal report.  DoneReports: the terminal
\* reports the observer (update_status / print, the channel the UI reads) has
\* received from worker t, a completion message or the "Error: ..." print.
C12_DoneReportedExactlyOnce ==
    \A t \in Threads :
        LET DoneReports == (IF last_report[t] = "completed" THEN 1 ELSE 0) + err_reports[t]
        IN (alive[t] /\ pc[t] = "finally") => DoneReports = 1

\* C13: is_running() is true if and only if a worker thread spawned by the
\* controller exists and has not terminated, in every reachable state, the states
\* after a stop() whose join timed out included.
C13_IsRunningIffLiveWorker ==
    is_running <=> (\E t \in Threads : alive[t])

\* C14: stop() is idempotent: called when no worker is running it changes no
\* controller state (handles, Event, threads), and a stop() that has returned
\* leaves the controller where a second stop() is such a no-op.
C14_StopIdempotent ==
    [][ /\ (~is_running /\ stop_macro) =>
              UNCHANGED <<current_macro, macro_thread, running, caller_pc,
                          thr_vars, obs_vars>>
        /\ stop_join => (~is_running' /\ caller_pc' = "idle") ]_vars

\* stop() finds no running worker while the handle and the macro of a worker that
\* ended by itself are still set: the no-op leaves them as they are.
C14_Witness ==
    /\ caller_pc = "idle" /\ ~is_running
    /\ macro_thread # None /\ current_macro # None
    /\ last_error = "AlreadyRunning"

\* The macro of the playback scenario: [KeyPress a, Sleep 0.5, KeyHold b 1.2], Once.
ScenarioMacro ==
    RecordedMacro(<<KeyPress("a"), Sleep(50), KeyHold("b", 120)>>, FALSE, None)

\* What the observer has been told so far: text, key and shown number of each line.
Heard == [i \in 1..Len(console) |-> <<console[i].text, console[i].key, console[i].shown>>]

\* The six messages of the scenario: pressing a, released a, waiting 0.5 s,
\* pressing b for 1.20 s, released b, completion.
ScenarioMessages ==
    << <<"Pressing K", "A", 0>>, <<"Released K", "A", 0>>,
       <<"Waiting for D seconds...", "", 5>>,
       <<"Pressing K for D seconds", "B", 120>>, <<"Released K", "B", 0>>,
       <<"Recorded macro completed!", "", 0>> >>

\* C15 as stated: the run of [KeyPress a, Sleep 0.5, KeyHold b 1.2] under Once
\* without cancellation has printed exactly the six messages pressing a, released
\* a, waiting 0.5 s, pressing b for 1.2 s, released b, completion, nothing else.
C15_ExactlySixMessages ==
    (p_macro = ScenarioMacro /\ p_pc = "returned") => Heard = ScenarioMessages

\* C15, amended: the run prints "Starting recorded macro..." first and then exactly
\* those six messages in that order: at every moment of the run what has been
\* printed is a prefix of that list, and all of it once run() has returned.
C15_StartingThenSixMessages ==
    p_macro = ScenarioMacro =>
        LET expected == << <<"Starting recorded macro...", "", 0>> >> \o ScenarioMessages
        IN /\ Len(Heard) <= Len(expected)
           /\ SubSeq(expected, 1, Len(Heard)) = Heard
           /\ p_pc = "returned" => Heard = expected

C15_Witness ==
    /\ p_macro = ScenarioMacro /\ p_pc = "returned"
    /\ Len(console) = 7
    /\ console[5].text = "Pressing K for D seconds" /\ console[5].current_step = 3

\* C16: saving a new recording whose name is not exactly equal to the name of any
\* existing macro never overwrites or removes a stored macro: every macro that
\* was loadable before the save is loadable after it, with unchanged content.
C16_SaveKeepsStoredMacros ==
    [][ (saves' # saves /\ recorded_macro'.name \notin get_all_macro_names) =>
            \A f \in DOMAIN loaded :
                f \in DOMAIN loaded' /\ loaded'[f] = loaded[f] ]_all_vars

\* C17: converting a macro to its persistable form and back yields an equal macro
\* (actions, loop flag and count, name, description): the macro read back from the
\* file the save flow wrote is the macro that was saved, and every macro the
\* store holds is a fixed point of to_dict followed by from_dict.
C17_RoundTrip ==
    /\ LET f == make_safe_filename(recorded_macro.name) IN
       (/\ recorded_macro # NoMacro
        /\ f \in DOMAIN files
        /\ files[f] = json_dump(to_dict(recorded_macro)))
         => (f \in DOMAIN loaded /\ loaded[f] = recorded_macro)
    /\ \A f \in DOMAIN loaded : from_dict(to_dict(loaded[f])) = loaded[f]
    /\ \A n \in DOMAIN registry : from_dict(to_dict(registry[n])) = registry[n]

\* A saved recording with its own description and policy Once has been read back,
\* next to a stored macro with a loop count.
C17_Witness ==
    /\ recorded_macro.description = "d" /\ ~recorded_macro.loop
    /\ make_safe_filename(recorded_macro.name) \in DOMAIN loaded
    /\ loaded[make_safe_filename(recorded_macro.name)] = recorded_macro
    /\ \E g \in DOMAIN loaded : loaded[g].loop_count = 2

\* C18: a persisted record containing an action with an unknown tag, or a KeyHold
\* or Sleep with a non-positive duration, is rejected when it is loaded: no such
\* record is among the loaded macros.
C18_MalformedActionsRejected ==
    \A f \in DOMAIN files :
        LET data == files[f].data
            malformed(a) ==
                \/ a.type \notin {"keypress", "keyhold", "sleep"}
                \/ a.type = "keyhold" /\ a.duration <= 0
                \/ a.type = "sleep" /\ a.delay <= 0
        IN (/\ files[f].json
            /\ "actions" \in DOMAIN data
            /\ \E i \in 1..Len(data["actions"]) : malformed(data["actions"][i]))
           => f \notin DOMAIN loaded

\* C19: loading all persisted macros never fails as a whole because of one bad
\* record: a file that cannot be parsed or lacks a required field (name, actions)
\* is absent from the returned list, and every other file is in it with the name
\* and the actions of its record.
C19_BadRecordsSkipped ==
    \A f \in DOMAIN files :
        LET bad == ~files[f].json \/ "name" \notin DOMAIN files[f].data
                                  \/ "actions" \notin DOMAIN files[f].data
        IN /\ bad => f \notin DOMAIN loaded
           /\ ~bad => /\ f \in DOMAIN loaded
                      /\ loaded[f].name = files[f].data["name"]
                      /\ loaded[f].actions = files[f].data["actions"]

\* A directory with an unparsable file and a record without a name next to a
\* recording saved by the program: the recording alone has been loaded.
C19_Witness ==
    /\ DOMAIN files = {<<"x">>, <<"n">>, <<"a", "_", "b">>}
    /\ DOMAIN loaded = {<<"a", "_", "b">>}
    /\ DOMAIN registry = {<<"a", "!", "b">>}

\* The reserved function-key band, f1 to f12.
FunctionBand ==
    {<<"f", "1">>, <<"f", "2">>, <<"f", "3">>, <<"f", "4">>, <<"f", "5">>, <<"f", "6">>,
     <<"f", "7">>, <<"f", "8">>, <<"f", "9">>, <<"f", "1", "0">>, <<"f", "1", "1">>,
     <<"f", "1", "2">>}

\* C20: while recording, no action is ever appended for a key of the band f1..f12,
\* on its down-edge or its up-edge and however long it was held (such an edge
\* leaves the action list as it is), no recorded action names such a key, and
\* such a key is never in the pressed-key map.
C20_FunctionKeysNeverRecorded ==
    /\ [](/\ \A i \in 1..Len(rec_actions) :
                rec_actions[i].type # "sleep" => rec_actions[i].key \notin FunctionBand
          /\ DOMAIN pressed_keys \cap FunctionBand = {})
    /\ [][ \A key \in Keyboard :
              (/\ key_name(key) \in FunctionBand
               /\ on_key_press(key) \/ on_key_release(key))
                 => UNCHANGED <<rec_actions, pressed_keys>> ]_all_vars

\* The up-edge of f12, held for more than 0.2 s, has been handled while recording
\* and has left no action behind.
C20_Witness ==
    /\ recording /\ listener
    /\ last_event = <<"up", <<"f", "1", "2">>>>
    /\ now >= 3 * Tick
    /\ rec_actions = <<>> /\ pressed_keys = EmptyMap

\* The recording listener is running and delivers key events to a recorder that
\* is recording.
Hearing == listener /\ recording

\* d hundredths of a second is ms milliseconds rounded to two decimals.
IsRounded(d, ms) == 10 * d - 5 <= ms /\ ms <= 10 * d + 5

\* The last action of a list.
Last(actions) == actions[Len(actions)]

\* C21: on the key-up of a tracked key the recorder appends one action for it as
\* the last one: a KeyHold with the held time rounded to two decimals if and only
\* if the time since the key's recorded down-edge is strictly greater than 0.2 s,
\* and otherwise, also at exactly 0.2 s, a KeyPress with no duration.
C21_HoldIffLongerThanThreshold ==
    [][ \A key \in Keyboard :
          (/\ Hearing
           /\ key_name(key) \in DOMAIN pressed_keys
           /\ on_key_release(key))
             => LET hold_duration == now - pressed_keys[key_name(key)]
                    last == Last(rec_actions')
                IN /\ Len(rec_actions') > Len(rec_actions)
                   /\ last.key = key_name(key)
                   /\ (last.type = "keyhold") <=> (hold_duration > HoldThreshold)
                   /\ last.type = "keyhold" => IsRounded(last.duration, hold_duration)
                   /\ last.type # "keyhold" => last = KeyPress(key_name(key)) ]_all_vars

\* A key was held for 0.306 s and is recorded as held for 0.31 s.
C21_Witness ==
    /\ rec_actions # <<>>
    /\ Last(rec_actions) = KeyHold(<<"a">>, 31)
    /\ last_event = <<"up", <<"a">>>>
    /\ last_action_time = now

\* C22: when a key's down-edge comes at least 0.1 s after the key-up before it,
\* with no key event in between, the key-up of that key leaves exactly one Sleep
\* between the two keys' actions, and its delay is that gap of inactivity rounded
\* to two decimals.  The case: the action list ends with the action of a key,
\* recorded at last_action_time, the key went down after that as the next key
\* event the recorder heard, and no other key is tracked.
C22_SleepEqualsInactivityGap ==
    [][ \A key \in Keyboard :
          (/\ Hearing
           /\ rec_actions # <<>> /\ Last(rec_actions).type # "sleep"
           /\ DOMAIN pressed_keys = {key_name(key)}
           /\ last_event = <<"down", key_name(key)>>
           /\ pressed_keys[key_name(key)] >= last_action_time
           /\ pressed_keys[key_name(key)] - last_action_time >= SleepThreshold
           /\ on_key_release(key))
             => LET n == Len(rec_actions)
                    gap == pressed_keys[key_name(key)] - last_action_time
                IN /\ Len(rec_actions') = n + 2
                   /\ rec_actions'[n + 1].type = "sleep"
                   /\ IsRounded(rec_actions'[n + 1].delay, gap)
                   /\ rec_actions'[n + 2].key = key_name(key) ]_all_vars

\* C23: once is_recording() returns false the recorded action list is complete and
\* stable: as long as no new recording is started, no step changes it, the step
\* that appends the trailing Sleep included.
C23_StableOnceStopped ==
    [][ (~recording /\ ~recording') => rec_actions' = rec_actions ]_all_vars

\* C24: whatever is saved, deleted and reloaded, every built-in macro is listed and
\* get_macro_by_name returns the built-in instance for its name, also when a file
\* of the directory carries that name; and a delete removes a file only for a
\* name that is among the recorded macros.
C24_BuiltinsSurviveDeletes ==
    /\ [](\A name \in PrebuiltNames :
             /\ name \in get_all_macro_names
             /\ get_macro_by_name(name) = Prebuilt(name))
    /\ [][ \A name \in get_all_macro_names :
              (delete_macro(name) /\ files' # files)
                 => /\ name \in DOMAIN registry
                    /\ DOMAIN files' = DOMAIN files \ {make_safe_filename(name)} ]_all_vars

\* A macro was saved, and every file of the directory has been deleted since.
C24_Witness ==
    /\ saves > 0
    /\ files = EmptyMap /\ registry = EmptyMap
    /\ get_all_macro_names = PrebuiltNames

\* C25: the loop policy of a macro changes only while no worker started with
\* it is alive.
C25_NoEditWhileWorkerAlive ==
    [][ <<win.loop, win.loop_count>>' # <<win.loop, win.loop_count>>
            => \A t \in Threads : ~worker_alive(t) ]_all_vars

\* C27: stopping a recording appends at most one trailing Sleep, however often
\* stop is triggered for the session: a Sleep is followed by the action of a
\* key or ends the list, so the list never holds two Sleeps in a row.
C27_AtMostOneTrailingSleep ==
    \A i \in 1..(Len(rec_actions) - 1) :
        ~(rec_actions[i].type = "sleep" /\ rec_actions[i + 1].type = "sleep")

\* C28: while recording, the key-up of a key that is neither f1..f12 nor the stop
\* key keeps what was recorded and appends the key's own action as the last one;
\* exactly when an action was recorded before and more than 0.1 s have passed
\* since the last action, one Sleep of that time, rounded to two decimals, goes
\* right before it, and otherwise none.  The time of the last action becomes the
\* time of this key-up.
C28_SleepBeforeActionIffGap ==
    [][ \A key \in Keyboard :
          (/\ Hearing
           /\ ~is_function_key(key_name(key))
           /\ key_name(key) # stop_key
           /\ on_key_release(key))
             => LET n == Len(rec_actions)
                    elapsed == now - last_action_time
                    due == n > 0 /\ elapsed > SleepThreshold
                    after == rec_actions'
                IN /\ Len(after) = n + (IF due THEN 2 ELSE 1)
                   /\ SubSeq(after, 1, n) = rec_actions
                   /\ due => /\ after[n + 1].type = "sleep"
                             /\ IsRounded(after[n + 1].delay, elapsed)
                   /\ Last(after).type # "sleep"
                   /\ Last(after).key = key_name(key)
                   /\ last_action_time' = now ]_all_vars

\* A key went up 0.106 s after the action before it: a Sleep of 0.11 s stands
\* between the two actions.
C28_Witness ==
    /\ Hearing
    /\ Len(rec_actions) = 3
    /\ rec_actions[1].type # "sleep"
    /\ rec_actions[2] = Sleep(11)
    /\ rec_actions[3] = KeyPress(<<"a">>)
    /\ last_event = <<"up", <<"a">>>>
    /\ last_action_time = now

\* C29: while recording, the first down-edge of a key that is neither f1..f12 nor
\* the stop key is tracked with the time it came at; a further down-edge of a
\* tracked key changes neither its timestamp nor the action list; and the key-up
\* of a tracked key appends exactly one action of a key, that key's, and ends
\* the tracking.
C29_RepeatedDownEdgeIgnored ==
    [][ \A key \in Keyboard :
          LET name == key_name(key)
              KeyActions(actions) == SelectSeq(actions, LAMBDA a : a.type # "sleep")
          IN /\ (/\ Hearing
                 /\ name \in DOMAIN pressed_keys
                 /\ on_key_press(key))
                   => /\ pressed_keys' = pressed_keys
                      /\ rec_actions' = rec_actions
             /\ (/\ Hearing
                 /\ name \notin DOMAIN pressed_keys
                 /\ ~is_function_key(name) /\ name # stop_key
                 /\ on_key_press(key))
                   => /\ pressed_keys' = (name :> now) @@ pressed_keys
                      /\ rec_actions' = rec_actions
             /\ (/\ Hearing
                 /\ name \in DOMAIN pressed_keys
                 /\ on_key_release(key))
                   => /\ Len(KeyActions(rec_actions')) = Len(KeyActions(rec_actions)) + 1
                      /\ Last(rec_actions').key = name
                      /\ name \notin DOMAIN pressed_keys' ]_all_vars

\* A key went down at the start of the recording, repeated, and went up 0.206 s
\* after its first down-edge: one KeyHold of 0.21 s is all that was recorded.
C29_Witness ==
    /\ rec_actions = <<KeyHold(<<"a">>, 21)>>
    /\ rec_events = 4
    /\ last_event = <<"up", <<"a">>>>
    /\ now = 2 * Tick + Jitter
    /\ last_action_time = now
    /\ down = {}
    /\ pressed_keys = EmptyMap
    /\ Hearing

\* C30: once the recorder has heard the down-edge of the stop key while recording
\* (the thread it started on stop_recording has not run yet), the recorder gets
\* to a state where it is not recording; and no down-edge or up-edge of the stop
\* key changes the action list or the map of pressed keys.
C30_StopKeyEndsRecordingUnrecorded ==
    /\ (recording /\ stop_spawned > 0) ~> ~recording
    /\ [][ (on_key_press(EscKey) \/ on_key_release(EscKey))
              => /\ rec_actions' = rec_actions
                 /\ pressed_keys' = pressed_keys ]_all_vars

\* A key was tapped, then the stop key went down and up while the recorder was
\* listening, and the recording has ended with the tap as its only action.
C30_Witness ==
    /\ rec_events = 5
    /\ last_event = <<"up", <<"e", "s", "c">>>>
    /\ rec_actions = <<KeyPress(<<"a">>)>>
    /\ pressed_keys = EmptyMap
    /\ ~recording
    /\ ~listener
    /\ stop_spawned = 0 /\ stop_checked = 0 /\ stop_cleared = 0

C31_HandlerExceptionSwallowed ==
    [][ \A key \in {KeyCode("a"), EscKey},
           point \in {"press", "release", "after_delay", "after_action", "after_del"} :
          handler_raises(key, point)
             => /\ listener' /\ recording'
                /\ Len(rec_actions') >= Len(rec_actions)
                /\ SubSeq(rec_actions', 1, Len(rec_actions)) = rec_actions
                /\ pressed_keys' \in {pressed_keys, del(pressed_keys, key_name(key))} ]_all_vars

\* The handler of a down-edge raised, and the key-up after it was recorded.
C31_Witness ==
    /\ rec.raised = 1
    /\ rec_events = 3
    /\ Hearing
    /\ rec_actions = <<KeyPress(<<"a">>)>>
    /\ last_event = <<"up", <<"a">>>>
    /\ last_action_time = now

\* C32: the cancellation signal of a run is cleared only by a stop() call or by
\* the end of that run's own worker: when a worker that ends clears the Event
\* while it says "run", that worker is the one the controller holds as current.
C32_OnlyOwnWorkerClearsSignal ==
    [][ (running /\ ~running') =>
           \/ stop_macro
           \/ \E t \in Threads : macro_thread = t /\ run_macro_finally(t) ]_vars

\* C33: when the loop controls are as selecting the macro has left them, starting
\* the macro runs it with the loop policy it has stored: the set_loop of the
\* start leaves the macro's loop and loop_count as they were.
C33_StartAppliesStoredPolicy ==
    [][ (win.controls = loop_controls_of(win) /\ MainWindow_start_macro)
            => <<win.loop, win.loop_count>>' = <<win.loop, win.loop_count>> ]_all_vars

\* C34: deleting a recorded macro by its name removes the stored macro of that
\* name and no other: every file that held a macro of another name still loads
\* to the same macro, no file holds the deleted name any more, and the registry
\* after the reload has the names of the stored macros.
C34_DeleteRemovesExactlyTheNamed ==
    [][ \A name \in DOMAIN registry :
          (delete_macro(name) /\ make_safe_filename(name) \in DOMAIN files)
             => /\ \A f \in DOMAIN loaded :
                     loaded[f].name # name => f \in DOMAIN loaded' /\ loaded'[f] = loaded[f]
                /\ \A f \in DOMAIN loaded' : loaded'[f].name # name
                /\ DOMAIN registry' = {loaded'[f].name : f \in DOMAIN loaded'} ]_all_vars

C36_SleepsOnlyBetweenOrTrailing ==
    [][ LET WellFormed(a) ==
              /\ a # <<>> => a[1].type # "sleep"
              /\ \A i \in 1..(Len(a) - 1) :
                    ~(a[i].type = "sleep" /\ a[i + 1].type = "sleep")
        IN (/\ WellFormed(rec_actions)
            /\ ~(\E by \in StopCallers : stop_recording_finish(by) /\ ~listener))
              => WellFormed(rec_actions') ]_all_vars

\* The first key went up more than 0.1 s after the recording began, and the one
\* stop of the recording came 0.2 s after it: the list is the key's action and
\* one trailing Sleep.
C36_Witness ==
    /\ ~listener /\ ~recording
    /\ rec_events = 4
    /\ rec.ui = "idle" /\ rec.stop_spawned = 0 /\ rec.stop_checked = 0 /\ rec.stop_cleared = 0
    /\ last_event = <<"down", stop_key>>
    /\ last_action_time = Tick + Jitter
    /\ rec_actions = <<KeyPress(<<"a">>), Sleep(20)>>

\* C37: the actions of keys stand in the list in the order in which the keys went
\* up: while recording, the key-up of a key that is neither f1..f12 nor the stop
\* key leaves the actions of keys recorded so far in their order and puts one
\* action, of the key that went up, after them all, whichever keys went down
\* before it and are still held; and no key-down adds or moves an action.
C37_ActionsInUpEdgeOrder ==
    [][ LET KeysOf(a) == SelectSeq(a, LAMBDA x : x.type # "sleep")
            before == KeysOf(rec_actions)
            after == KeysOf(rec_actions')
        IN /\ \A key \in Keyboard :
                (/\ Hearing
                 /\ key \in down /\ key \notin down'
                 /\ ~is_function_key(key_name(key))
                 /\ key_name(key) # stop_key
                 /\ on_key_release(key))
                   => /\ Len(after) = Len(before) + 1
                      /\ SubSeq(after, 1, Len(before)) = before
                      /\ after[Len(after)].key = key_name(key)
           /\ rec_actions' # rec_actions => \A key \in Keyboard : ~on_key_press(key) ]_all_vars

\* The key a went down, then the key F, then a went up after 0.206 s and F went
\* up 0.1 s later, held for 0.206 s: the hold of a and then the hold of f, with
\* nothing between them.
C37_Witness ==
    /\ Hearing
    /\ rec_events = 5
    /\ down = {} /\ pressed_keys = EmptyMap
    /\ now = 3 * Tick + Jitter
    /\ last_action_time = now
    /\ last_event = <<"up", <<"f">>>>
    /\ rec_actions = <<KeyHold(<<"a">>, 21), KeyHold(<<"f">>, 21)>>

\* C38: once a recording has been stopped no action of a key is added to it, so
\* a key still held at the stop leaves none in it; the start of the next
\* recording empties the action list and the map of tracked down-edges; hence
\* while a recording is heard every tracked down-edge is of a key that is down,
\* and the key-up of a key that went down before the recording began is
\* recorded as a KeyPress, without a held time.
C38_NoCarryOverBetweenSessions ==
    [][ LET KeysOf(a) == SelectSeq(a, LAMBDA x : x.type # "sleep")
        IN /\ (~recording /\ ~recording') => KeysOf(rec_actions') = KeysOf(rec_actions)
           /\ (~recording /\ toggle_recording)
                 => recording' /\ rec_actions' = <<>> /\ pressed_keys' = EmptyMap
           /\ Hearing' => \A n \in DOMAIN pressed_keys' :
                              \E key \in down' : key_name(key) = n
           /\ \A key \in Keyboard :
                (/\ Hearing
                 /\ key \in down /\ key \notin down'
                 /\ key_name(key) \notin DOMAIN pressed_keys
                 /\ ~is_function_key(key_name(key))
                 /\ key_name(key) # stop_key
                 /\ on_key_release(key))
                   => rec_actions'[Len(rec_actions')] = KeyPress(key_name(key)) ]_all_vars

\* The key a went down in a recording that was then stopped, and is still down
\* in the recording started after it, which has no action and tracks no key.
C38_Witness ==
    /\ Hearing
    /\ rec_events = 4
    /\ last_event = <<"down", <<"a">>>>
    /\ down = {KeyCode("a")}
    /\ pressed_keys = EmptyMap
    /\ rec_actions = <<>>
    /\ rec.ui = "idle"

\* C39: with start_macro and stop_macro called from one thread, whenever
\* is_running() is true the controller holds a current macro, so the
\* current_macro.name that stop_macro reads is there.
C39_RunningHasCurrentMacro ==
    is_running => current_macro # None

\* stop_macro is waiting in join for the worker of a second run, which is still
\* alive, and the macro of that run is the current one.
C39_Witness ==
    /\ caller_pc = "joining"
    /\ spawned = 2
    /\ is_running
    /\ ~running
    /\ current_macro = tmacro[macro_thread]
    /\ current_macro # None

====
